---- MODULE Spec2Model ----
(***************************************************************************)
(* Model of the GeoSnap offline core:                                      *)
(*   - the service worker of src/sw.js (install / activate / fetch with    *)
(*     the cacheFirst and networkFirst strategies), and                    *)
(*   - the IndexedDB record store of src/js/storage.js.                    *)
(* Every await of the source is one step of the model, so that handlers    *)
(* of overlapping fetch events interleave as they do in the browser.       *)
(***************************************************************************)
EXTENDS Integers, Sequences, FiniteSets, TLC

(***************************************************************************)
(* Bounds                                                                  *)
(***************************************************************************)
\* number of fetch events dispatched to the worker (each runs in its own
\* handler, handlers overlap freely)
MaxEvents == 2
\* number of store operations issued by the page
MaxOps == 3
\* number of store operations suspended in init() at the same time
MaxWaiting == 2
MaxStored == 2
\* number of calls of GeoLocation.getCurrentPosition
MaxCalls == 3
\* number of clicks on the capture button
MaxCaptures == 2
\* number of clicks on a navigation button
MaxSwitches == 5

(***************************************************************************)
(* Service worker: names, manifest, requests                               *)
(***************************************************************************)
CACHE_NAME == "geosnap-v1"
STATIC_CACHE == "geosnap-static-v1"
DYNAMIC_CACHE == "geosnap-dynamic-v1"

STATIC_ASSETS ==
  { "/", "/index.html", "/css/main.css", "/css/views.css", "/js/app.js",
    "/js/storage.js", "/js/geolocation.js", "/js/camera.js", "/js/map.js",
    "/manifest.json", "/assets/icons/icon-192x192.png",
    "/assets/icons/icon-512x512.png" }

\* url.protocol, as a sequence of characters (startsWith works on characters)
ProtoHttp == << "h", "t", "t", "p", ":" >>
ProtoHttps == << "h", "t", "t", "p", "s", ":" >>
ProtoChromeExt == << "c", "h", "r", "o", "m", "e", "-", "e", "x", "t", ":" >>
ProtoData == << "d", "a", "t", "a", ":" >>
Protocols == { ProtoHttp, ProtoHttps, ProtoChromeExt, ProtoData }

\* url.hostname, as a sequence of labels (includes works on runs of labels)
HostOrigin == << "localhost" >>
HostUnpkg == << "unpkg", "com" >>
HostUnpkgSub == << "cdn", "unpkg", "com" >>
HostTileBare == << "tile", "openstreetmap", "org" >>
HostTileA == << "a", "tile", "openstreetmap", "org" >>
HostNominatim == << "nominatim", "openstreetmap", "org" >>
HostOther == << "api", "example", "com" >>
Hostnames ==
  { HostOrigin, HostUnpkg, HostUnpkgSub, HostTileBare, HostTileA,
    HostNominatim, HostOther }

Methods == { "GET", "POST", "HEAD" }
Pathnames == { "/", "/index.html", "/js/ui.js", "/reverse", "/15/1/2.png" }

\* every request the classification is examined on
AllRequests ==
  [ method : Methods, protocol : Protocols, hostname : Hostnames,
    pathname : Pathnames ]

Req(m, pr, h, p) == [ method |-> m, protocol |-> pr, hostname |-> h, pathname |-> p ]

\* String.prototype.startsWith
StartsWith(s, pre) == Len(s) >= Len(pre) /\ SubSeq(s, 1, Len(pre)) = pre

\* String.prototype.includes
Includes(s, pat) ==
  \E i \in 1 .. (Len(s) - Len(pat) + 1) : SubSeq(s, i, i + Len(pat) - 1) = pat

\* the literal 'http' of url.protocol.startsWith('http')
LitHttp == << "h", "t", "t", "p" >>
\* the literal 'tile.openstreetmap.org'
LitTile == << "tile", "openstreetmap", "org" >>

\* the fetch listener's decision: which strategy the event is answered with
\* ("none": the listener returns without calling respondWith)
ClassifyMutNominatim(req) ==
  IF req.method # "GET" THEN "none"
  ELSE IF ~StartsWith(req.protocol, LitHttp) THEN "none"
  ELSE IF req.pathname \in STATIC_ASSETS THEN "cacheFirst"
  ELSE IF req.hostname = HostUnpkg \/ Includes(req.hostname, LitTile) THEN "cacheFirst"
  ELSE IF req.hostname = HostNominatim THEN "cacheFirst"
  ELSE "networkFirst"

ClassifyMutNoSkip(req) ==
  IF req.pathname \in STATIC_ASSETS THEN "cacheFirst"
  ELSE IF req.hostname = HostUnpkg \/ Includes(req.hostname, LitTile) THEN "cacheFirst"
  ELSE "networkFirst"

Classify(req) ==
  IF req.method # "GET" THEN "none"
  ELSE IF ~StartsWith(req.protocol, LitHttp) THEN "none"
  ELSE IF req.pathname \in STATIC_ASSETS THEN "cacheFirst"
  ELSE IF req.hostname = HostUnpkg \/ Includes(req.hostname, LitTile) THEN "cacheFirst"
  ELSE IF req.hostname = HostNominatim THEN "networkFirst"
  ELSE "networkFirst"

\* the bucket a strategy works on (cacheFirst opens STATIC_CACHE,
\* networkFirst opens DYNAMIC_CACHE)
BucketOf(strategy) ==
  IF strategy = "cacheFirst" THEN STATIC_CACHE ELSE DYNAMIC_CACHE


(***************************************************************************)
(* Responses                                                               *)
(***************************************************************************)
NoResp == [ status |-> 0, ctype |-> "", body |-> "", ver |-> 0 ]

\* a response of the origin; ver tells the fetches apart
OriginResp(status, n) ==
  [ status |-> status, ctype |-> "text/html", body |-> "origin", ver |-> n ]

\* new Response('Offline - Resource not available', {status: 503, ...})
OfflineMutStatus ==
  [ status |-> 200, ctype |-> "text/plain",
    body |-> "Offline - Resource not available", ver |-> 0 ]

OfflineResponse ==
  [ status |-> 503, ctype |-> "text/plain",
    body |-> "Offline - Resource not available", ver |-> 0 ]

\* Response.ok
IsOkMutBelow500(r) == r.status >= 200 /\ r.status <= 499

IsOk(r) == r.status >= 200 /\ r.status <= 299

\* statuses the origin answers with
OriginStatuses == { 200, 404 }

\* the request identity a bucket is keyed by (all cached requests are GET)
Key(req) == [ protocol |-> req.protocol, hostname |-> req.hostname, pathname |-> req.pathname ]

\* the identity cache.addAll stores a manifest path under
AssetKey(p) == [ protocol |-> ProtoHttps, hostname |-> HostOrigin, pathname |-> p ]

\* the requests dispatched to the fetch listener
ReqIndex == Req("GET", ProtoHttps, HostOrigin, "/index.html")
ReqGeocode == Req("GET", ProtoHttps, HostNominatim, "/reverse")
ReqTile == Req("GET", ProtoHttps, HostTileA, "/15/1/2.png")
ReqPost == Req("POST", ProtoHttps, HostNominatim, "/reverse")
ReqExt == Req("GET", ProtoChromeExt, HostOther, "/index.html")
EventRequests == { ReqIndex, ReqGeocode, ReqTile, ReqPost, ReqExt }

(***************************************************************************)
(* State                                                                   *)
(***************************************************************************)
VARIABLES
  phase,          \* lifecycle of the worker
  installResult,  \* how the install chain ended
  installPromise, \* the promise the install listener gave to waitUntil
  cacheStore,     \* CacheStorage: bucket name -> (request identity -> response)
  cacheNames,     \* activate: the names caches.keys() resolved with
  toDelete,       \* activate: caches.delete calls still in flight
  deleteFailed,   \* activate: a caches.delete rejected
  claimed,        \* clients.claim() was called
  preActivate,    \* cacheStore when activation started (history)
  handlers,       \* one record per dispatched fetch event
  started,        \* number of fetch events dispatched
  pendingPuts,    \* cache.put calls issued and not yet settled
  putRejected,    \* a cache.put rejected (nobody handles the rejection)
  clock,          \* number of network fetches completed by the origin
  lastOk,         \* identity -> latest 2xx response networkFirst received (history)
  clsReq,         \* classification: the request examined
  clsOut,         \* classification: the listener's decision
  db,             \* Storage.db: the connection handle (0: null)
  opens,          \* number of indexedDB.open requests that succeeded
  hasStore,       \* the 'memories' object store exists in the database
  indexes,        \* names of the indexes of the 'memories' object store
  objectStore,    \* records of the 'memories' object store: id -> record
  keyGen,         \* key generator of the object store (autoIncrement)
  waiting,        \* operations suspended in await this.init()
  ops,            \* number of store operations issued
  lastOp,         \* the last store operation and its outcome
  created,        \* records created so far, in call order (history)
  onlyCreates,    \* no update, delete or clearAll has run yet (history)
  lastRun,        \* the operation that settled last: its call, the cause of a
                  \* rejection, the handle it used, what it resolved with (history)
  rtPhase,        \* backup and restore: how far the caller has come
  rtOriginal,     \* backup and restore: the records when the export was made (history)
  rtQueue,        \* backup and restore: memories of the export not yet saved again
  requesting,     \* GeoLocation.requesting
  geolocation,    \* the browser has navigator.geolocation
  requests,       \* one record per call of GeoLocation.getCurrentPosition
  issued,         \* number of calls of GeoLocation.getCurrentPosition made
  nominatim,      \* the ways the Nominatim request of reverseGeocode can end
  positionErrors, \* the error codes the platform's location service reports
  currentView,    \* App.currentView
  camera,         \* Camera: stream (0: null), isActive, getUserMedia calls pending
  switches,       \* number of clicks on a navigation button
  captures,       \* one record per click on the capture button
  captured,       \* number of clicks on the capture button
  appMemories,    \* App.memories
  searchQuery,    \* App.searchQuery, as its characters
  filteredMemories, \* App.filteredMemories
  feed,           \* what the memories grid shows
  currentModal,   \* UI.currentModal
  pendingUpload   \* UI.pendingUpload

swVars ==
  << phase, installResult, installPromise, cacheStore, cacheNames, toDelete, deleteFailed, claimed,
     preActivate, handlers, started, pendingPuts, putRejected, clock, lastOk >>
clsVars == << clsReq, clsOut >>
storeVars ==
  << db, opens, hasStore, indexes, objectStore, keyGen, waiting, ops, lastOp, created,
     onlyCreates, lastRun, rtPhase, rtOriginal, rtQueue >>
rtVars == << rtPhase, rtOriginal, rtQueue >>
geoVars == << requesting, geolocation, requests, issued, nominatim, positionErrors >>
appVars ==
  << currentView, camera, switches, captures, captured, appMemories, searchQuery,
     filteredMemories, feed, currentModal, pendingUpload >>

\* the feed and the modals
uiVars == << searchQuery, filteredMemories, feed, currentModal, pendingUpload >>
vars == << swVars, clsVars, storeVars, geoVars, appVars >>

EmptyBucket == [ k \in {} |-> NoResp ]

\* bucket contents after cache.put(key, r)
BucketPut(bucket, key, r) ==
  [ k \in DOMAIN bucket \cup { key } |-> IF k = key THEN r ELSE bucket[k] ]

\* CacheStorage after caches.open(name): the bucket is created when absent
Opened(store, name) ==
  IF name \in DOMAIN store THEN store
  ELSE [ n \in DOMAIN store \cup { name } |-> IF n = name THEN EmptyBucket ELSE store[n] ]

\* CacheStorage after caches.delete(name)
Deleted(store, name) == [ n \in DOMAIN store \ { name } |-> store[n] ]

Handlers == 1 .. MaxEvents

IdleHandler ==
  [ pc |-> "idle", req |-> ReqIndex, strategy |-> "none", fetched |-> 0,
    cacheOps |-> 0, threw |-> FALSE, cacheErr |-> FALSE, heldAtStart |-> FALSE,
    heldAtSettle |-> FALSE, entry |-> NoResp, settled |-> "pending",
    resp |-> NoResp, looked |-> "none" ]


\* outcome of a store operation as its caller sees it
Outcome(op, ok, id, list) == [ op |-> op, ok |-> ok, id |-> id, list |-> list ]
NoOp == Outcome("none", TRUE, 0, << >>)

\* the value undefined where a record is expected: request.result of get(id)
\* when no record has the key; "undefined" also stands for a property that a
\* record does not have
Undefined ==
  [ id |-> 0, photo |-> "undefined", location |-> "undefined", timestamp |-> 0,
    notes |-> "undefined" ]

\* no operation has settled yet
NoRun ==
  [ call |-> [ n |-> 0, op |-> "none",
               rec |-> [ id |-> 0, photo |-> "", location |-> "", timestamp |-> 0,
                         notes |-> "" ],
               id |-> 0 ],
    error |-> "", handle |-> 0, value |-> Undefined,
    json |-> [ exportDate |-> "", appName |-> "", version |-> "", totalMemories |-> 0,
               memories |-> << >> ] ]

\* the bucket holds an entry for the identity
Holds(store, name, key) == name \in DOMAIN store /\ key \in DOMAIN store[name]

\* the entry cache.match resolves with (NoResp: undefined)
Match(store, name, key) == IF Holds(store, name, key) THEN store[name][key] ELSE NoResp

(***************************************************************************)
(* Install                                                                 *)
(***************************************************************************)
\* what the chain of the install listener settles with when one of its steps
\* rejected: the trailing .catch logs the error and returns undefined
InstallCatchMutRethrow == "rejected"

InstallCatch == "fulfilled"

\* cache.addAll(STATIC_ASSETS) with every fetch a 2xx: all entries are written
AddAll(bucket) ==
  [ k \in DOMAIN bucket \cup { AssetKey(a) : a \in STATIC_ASSETS } |->
      IF k \in { AssetKey(a) : a \in STATIC_ASSETS } THEN OriginResp(200, 0) ELSE bucket[k] ]

\* the install listener; failed is the set of manifest assets whose fetch
\* fails (addAll is all-or-nothing)
Install ==
  /\ phase = "parsed"
  /\ \E openOk \in BOOLEAN, failed \in { {}, { "/index.html" }, { "/", "/js/map.js" }, STATIC_ASSETS } :
       IF ~openOk
         THEN /\ installResult' = "openFailed"
              /\ installPromise' = InstallCatch
              /\ cacheStore' = cacheStore
       ELSE IF failed # {}
         THEN /\ installResult' = "assetFailed"
              /\ installPromise' = InstallCatch
              /\ cacheStore' = Opened(cacheStore, STATIC_CACHE)
       ELSE /\ installResult' = "complete"
            /\ installPromise' = "fulfilled"
            /\ cacheStore' =
                 [ Opened(cacheStore, STATIC_CACHE) EXCEPT ![STATIC_CACHE] = AddAll(@) ]
  /\ phase' = "installed"
  /\ UNCHANGED << cacheNames, toDelete, deleteFailed, claimed, preActivate,
                  handlers, started, pendingPuts, putRejected, clock, lastOk >>
  /\ UNCHANGED << clsVars, storeVars, geoVars, appVars >>

(***************************************************************************)
(* Activate                                                                *)
(***************************************************************************)
\* the names the activate listener calls caches.delete on
StaleMutDynamic(names) == { n \in names : n # STATIC_CACHE }

Stale(names) == { n \in names : n # STATIC_CACHE /\ n # DYNAMIC_CACHE }

\* the worker leaves the installed state: it is discarded when the install
\* promise rejected; otherwise the activate listener runs up to caches.keys()
\* and issues the deletions
ActivateKeys ==
  /\ phase = "installed"
  /\ IF installPromise = "rejected"
       THEN /\ phase' = "redundant"
            /\ UNCHANGED << cacheNames, toDelete, preActivate >>
       ELSE /\ phase' = "activating"
            /\ cacheNames' = DOMAIN cacheStore
            /\ toDelete' = Stale(DOMAIN cacheStore)
            /\ preActivate' = cacheStore
  /\ UNCHANGED << installResult, installPromise, cacheStore, deleteFailed, claimed,
                  handlers, started, pendingPuts, putRejected, clock, lastOk >>
  /\ UNCHANGED << clsVars, storeVars, geoVars, appVars >>

\* one caches.delete settles
ActivateDelete ==
  /\ \E n \in toDelete, ok \in BOOLEAN :
       /\ toDelete' = toDelete \ { n }
       /\ IF ok
            THEN cacheStore' = Deleted(cacheStore, n) /\ deleteFailed' = deleteFailed
            ELSE cacheStore' = cacheStore /\ deleteFailed' = TRUE
  /\ UNCHANGED << phase, installResult, installPromise, cacheNames, claimed,
                  preActivate, handlers, started, pendingPuts, putRejected, clock, lastOk >>
  /\ UNCHANGED << clsVars, storeVars, geoVars, appVars >>

\* Promise.all settles: fulfilled once every deletion is done (then
\* clients.claim() is called), rejected as soon as one deletion rejected
\* (the worker is activated all the same, without the claim)
ActivateFinishMutEarly ==
  /\ phase = "activating"
  /\ claimed' = ~deleteFailed
  /\ phase' = "activated"
  /\ UNCHANGED << installResult, installPromise, cacheStore, cacheNames, toDelete,
                  deleteFailed, preActivate, handlers, started, pendingPuts, putRejected,
                  clock, lastOk >>
  /\ UNCHANGED << clsVars, storeVars, geoVars, appVars >>

ActivateFinish ==
  /\ phase = "activating"
  /\ deleteFailed \/ toDelete = {}
  /\ claimed' = ~deleteFailed
  /\ phase' = "activated"
  /\ UNCHANGED << installResult, installPromise, cacheStore, cacheNames, toDelete,
                  deleteFailed, preActivate, handlers, started, pendingPuts, putRejected,
                  clock, lastOk >>
  /\ UNCHANGED << clsVars, storeVars, geoVars, appVars >>


(***************************************************************************)
(* Fetch listener and the two strategies                                   *)
(***************************************************************************)
\* the handler's promise settles: outcome is "resolved" or "rejected"
Finish(hr, outcome, r) ==
  [ hr EXCEPT !.pc = "done", !.settled = outcome, !.resp = r,
              !.heldAtSettle = Holds(cacheStore, BucketOf(hr.strategy), Key(hr.req)),
              !.entry = Match(cacheStore, BucketOf(hr.strategy), Key(hr.req)) ]

\* catch (error) of cacheFirst
CacheFirstCatchMutNoTry(hr) == Finish(hr, "rejected", NoResp)

CacheFirstCatch(hr) == Finish(hr, "resolved", OfflineResponse)

\* the outer catch (error) of networkFirst
NetworkFirstCatchMutNoTry(hr) == Finish(hr, "rejected", NoResp)

NetworkFirstCatch(hr) == Finish(hr, "resolved", OfflineResponse)

\* the inner catch (networkError) of networkFirst, once cache.match resolved
\* with cached
NetworkFallbackMutNoCache(hr, cached) == NetworkFirstCatch(hr)

NetworkFallback(hr, cached) ==
  IF cached # NoResp THEN Finish(hr, "resolved", cached) ELSE NetworkFirstCatch(hr)

\* if (cachedResponse) return cachedResponse; of cacheFirst: the handler
\* after cache.match resolved with cached
CacheFirstLookupMutAlwaysNet(hr, cached) == [ hr EXCEPT !.pc = "cf_fetch" ]

CacheFirstLookup(hr, cached) ==
  IF cached # NoResp THEN Finish(hr, "resolved", cached) ELSE [ hr EXCEPT !.pc = "cf_fetch" ]

\* if (networkResponse.ok) cache.put(request, networkResponse.clone()):
\* the puts the strategy issues for the network response r
PutsForMutAny(hr, r) ==
  { [ bucket |-> BucketOf(hr.strategy), key |-> Key(hr.req), resp |-> r ] }

PutsForMutNone(hr, r) == {}

PutsFor(hr, r) ==
  IF IsOk(r)
    THEN { [ bucket |-> BucketOf(hr.strategy), key |-> Key(hr.req), resp |-> r ] }
    ELSE {}

\* what cache.match resolved with: a stored entry or undefined (history)
Looked(cached) == IF cached # NoResp THEN "hit" ELSE "miss"

\* the fetch listener: classifies the request and, unless it is skipped,
\* answers with the strategy's promise
FetchEvent ==
  /\ phase = "activated"
  /\ started < MaxEvents
  /\ \E req \in EventRequests :
       LET strategy == Classify(req)
           h == started + 1
       IN  handlers' =
             [ handlers EXCEPT ![h] =
                 [ IdleHandler EXCEPT
                     !.req = req,
                     !.strategy = strategy,
                     !.heldAtStart =
                        strategy # "none" /\ Holds(cacheStore, BucketOf(strategy), Key(req)),
                     !.pc = IF strategy = "none" THEN "passthrough"
                            ELSE IF strategy = "cacheFirst" THEN "cf_open"
                            ELSE "nf_open" ] ]
  /\ started' = started + 1
  /\ UNCHANGED << phase, installResult, installPromise, cacheStore, cacheNames,
                  toDelete, deleteFailed, claimed, preActivate, pendingPuts, putRejected,
                  clock, lastOk >>
  /\ UNCHANGED << clsVars, storeVars, geoVars, appVars >>

swFrame ==
  UNCHANGED << phase, installResult, installPromise, cacheNames, toDelete,
               deleteFailed, claimed, preActivate, started, putRejected >>

\* cacheFirst: await caches.open(STATIC_CACHE)
CacheFirstOpen ==
  /\ \E h \in Handlers, ok \in BOOLEAN :
       /\ handlers[h].pc = "cf_open"
       /\ IF ok
            THEN /\ cacheStore' = Opened(cacheStore, STATIC_CACHE)
                 /\ handlers' = [ handlers EXCEPT ![h].pc = "cf_match", ![h].cacheOps = @ + 1 ]
            ELSE /\ cacheStore' = cacheStore
                 /\ handlers' = [ handlers EXCEPT ![h] =
                       CacheFirstCatch([ handlers[h] EXCEPT !.cacheErr = TRUE, !.cacheOps = @ + 1 ]) ]
  /\ UNCHANGED << pendingPuts, clock, lastOk >>
  /\ swFrame
  /\ UNCHANGED << clsVars, storeVars, geoVars, appVars >>

\* cacheFirst: await cache.match(request), and the return on a hit
CacheFirstMatch ==
  /\ \E h \in Handlers, ok \in BOOLEAN :
       /\ handlers[h].pc = "cf_match"
       /\ handlers' = [ handlers EXCEPT ![h] =
            IF ok
              THEN CacheFirstLookup([ handlers[h] EXCEPT !.cacheOps = @ + 1,
                                       !.looked = Looked(Match(cacheStore, STATIC_CACHE,
                                                               Key(handlers[h].req))) ],
                                    Match(cacheStore, STATIC_CACHE, Key(handlers[h].req)))
              ELSE CacheFirstCatch([ handlers[h] EXCEPT !.cacheErr = TRUE, !.cacheOps = @ + 1 ]) ]
  /\ UNCHANGED << cacheStore, pendingPuts, clock, lastOk >>
  /\ swFrame
  /\ UNCHANGED << clsVars, storeVars, geoVars, appVars >>

\* cacheFirst: await fetch(request), the put of a 2xx response, the return
CacheFirstFetch ==
  /\ \E h \in Handlers, status \in OriginStatuses \cup { 0 } :
       /\ handlers[h].pc = "cf_fetch"
       /\ IF status = 0
            THEN /\ handlers' = [ handlers EXCEPT ![h] =
                       CacheFirstCatch([ handlers[h] EXCEPT !.threw = TRUE, !.fetched = @ + 1 ]) ]
                 /\ UNCHANGED << pendingPuts, clock >>
            ELSE LET r == OriginResp(status, clock + 1)
                 IN  /\ handlers' = [ handlers EXCEPT ![h] =
                           Finish([ handlers[h] EXCEPT !.fetched = @ + 1 ], "resolved", r) ]
                     /\ pendingPuts' = pendingPuts \cup PutsFor(handlers[h], r)
                     /\ clock' = clock + 1
  /\ UNCHANGED << cacheStore, lastOk >>
  /\ swFrame
  /\ UNCHANGED << clsVars, storeVars, geoVars, appVars >>

\* networkFirst: await caches.open(DYNAMIC_CACHE)
NetworkFirstOpen ==
  /\ \E h \in Handlers, ok \in BOOLEAN :
       /\ handlers[h].pc = "nf_open"
       /\ IF ok
            THEN /\ cacheStore' = Opened(cacheStore, DYNAMIC_CACHE)
                 /\ handlers' = [ handlers EXCEPT ![h].pc = "nf_fetch", ![h].cacheOps = @ + 1 ]
            ELSE /\ cacheStore' = cacheStore
                 /\ handlers' = [ handlers EXCEPT ![h] =
                       NetworkFirstCatch([ handlers[h] EXCEPT !.cacheErr = TRUE, !.cacheOps = @ + 1 ]) ]
  /\ UNCHANGED << pendingPuts, clock, lastOk >>
  /\ swFrame
  /\ UNCHANGED << clsVars, storeVars, geoVars, appVars >>

\* networkFirst: await fetch(request), the put of a 2xx response, the return;
\* a rejected fetch enters the inner catch
NetworkFirstFetch ==
  /\ \E h \in Handlers, status \in OriginStatuses \cup { 0 } :
       /\ handlers[h].pc = "nf_fetch"
       /\ IF status = 0
            THEN /\ handlers' = [ handlers EXCEPT ![h].pc = "nf_match", ![h].threw = TRUE,
                                                  ![h].fetched = @ + 1 ]
                 /\ UNCHANGED << pendingPuts, clock, lastOk >>
            ELSE LET r == OriginResp(status, clock + 1)
                 IN  /\ handlers' = [ handlers EXCEPT ![h] =
                           Finish([ handlers[h] EXCEPT !.fetched = @ + 1 ], "resolved", r) ]
                     /\ pendingPuts' = pendingPuts \cup PutsFor(handlers[h], r)
                     /\ clock' = clock + 1
                     /\ lastOk' = IF IsOk(r) THEN BucketPut(lastOk, Key(handlers[h].req), r)
                                  ELSE lastOk
  /\ UNCHANGED << cacheStore >>
  /\ swFrame
  /\ UNCHANGED << clsVars, storeVars, geoVars, appVars >>

\* networkFirst: await cache.match(request) in the inner catch
NetworkFirstMatch ==
  /\ \E h \in Handlers, ok \in BOOLEAN :
       /\ handlers[h].pc = "nf_match"
       /\ handlers' = [ handlers EXCEPT ![h] =
            IF ok
              THEN NetworkFallback([ handlers[h] EXCEPT !.cacheOps = @ + 1,
                                      !.looked = Looked(Match(cacheStore, DYNAMIC_CACHE,
                                                              Key(handlers[h].req))) ],
                                   Match(cacheStore, DYNAMIC_CACHE, Key(handlers[h].req)))
              ELSE NetworkFirstCatch([ handlers[h] EXCEPT !.cacheErr = TRUE, !.cacheOps = @ + 1 ]) ]
  /\ UNCHANGED << cacheStore, pendingPuts, clock, lastOk >>
  /\ swFrame
  /\ UNCHANGED << clsVars, storeVars, geoVars, appVars >>

\* a pending cache.put settles: the entry is written (replacing an earlier
\* one), or the put rejects and nothing is written.  Puts wait for the body
\* of their response, so they settle in any order.
PutSettleMutAwaited ==
  /\ \E p \in pendingPuts, ok \in BOOLEAN :
       /\ pendingPuts' = pendingPuts \ { p }
       /\ cacheStore' =
            IF ok THEN [ cacheStore EXCEPT ![p.bucket] = BucketPut(@, p.key, p.resp) ]
            ELSE cacheStore
       /\ putRejected' = (putRejected \/ ~ok)
       /\ handlers' =
            [ h \in Handlers |->
                IF ~ok /\ handlers[h].pc = "done" /\ handlers[h].resp = p.resp
                  THEN [ handlers[h] EXCEPT !.resp = OfflineResponse ]
                  ELSE handlers[h] ]
  /\ UNCHANGED << clock, lastOk >>
  /\ UNCHANGED << phase, installResult, installPromise, cacheNames, toDelete,
                  deleteFailed, claimed, preActivate, started >>
  /\ UNCHANGED << clsVars, storeVars, geoVars, appVars >>

PutSettle ==
  /\ \E p \in pendingPuts, ok \in BOOLEAN :
       /\ pendingPuts' = pendingPuts \ { p }
       /\ cacheStore' =
            IF ok THEN [ cacheStore EXCEPT ![p.bucket] = BucketPut(@, p.key, p.resp) ]
            ELSE cacheStore
       /\ putRejected' = (putRejected \/ ~ok)
  /\ UNCHANGED << handlers, clock, lastOk >>
  /\ UNCHANGED << phase, installResult, installPromise, cacheNames, toDelete,
                  deleteFailed, claimed, preActivate, started >>
  /\ UNCHANGED << clsVars, storeVars, geoVars, appVars >>

(***************************************************************************)
(* Specification of the service worker                                     *)
(***************************************************************************)
OldStatic == "geosnap-static-v0"

\* buckets left by earlier sessions and earlier versions of the worker
InitialBuckets ==
  [ n \in { STATIC_CACHE, DYNAMIC_CACHE, CACHE_NAME, OldStatic } |->
      IF n = STATIC_CACHE THEN BucketPut(EmptyBucket, Key(ReqTile), OriginResp(200, 0))
      ELSE IF n = DYNAMIC_CACHE THEN BucketPut(EmptyBucket, Key(ReqGeocode), OriginResp(200, 0))
      ELSE BucketPut(EmptyBucket, AssetKey("/index.html"), OriginResp(200, 0)) ]

StoreIdle ==
  /\ db = 0
  /\ opens = 0
  /\ hasStore = FALSE
  /\ indexes = {}
  /\ objectStore = << >>
  /\ keyGen = 1
  /\ waiting = {}
  /\ ops = 0
  /\ lastOp = NoOp
  /\ created = << >>
  /\ onlyCreates = TRUE
  /\ lastRun = NoRun
  /\ rtPhase = "idle"
  /\ rtOriginal = {}
  /\ rtQueue = << >>

ClsIdle == clsReq = ReqIndex /\ clsOut = "idle"

\* the page shows the feed; the camera is off
\* UI.pendingUpload before a file is selected (undefined) or after
\* resetUploadModal (null)
NoUpload == [ set |-> FALSE, photo |-> "", timestamp |-> 0 ]

NoCamera == [ stream |-> 0, isActive |-> FALSE, starting |-> 0, opened |-> 0, live |-> {} ]

AppIdle ==
  /\ currentView = "feed-view"
  /\ camera = NoCamera
  /\ switches = 0
  /\ captures = << >>
  /\ captured = 0
  /\ appMemories = << >>
  /\ searchQuery = << >>
  /\ filteredMemories = << >>
  /\ feed = [ state |-> "No memories yet", cards |-> << >> ]
  /\ currentModal = "null"
  /\ pendingUpload = NoUpload

\* no location request has been made
GeoIdle ==
  /\ requesting = FALSE
  /\ geolocation = TRUE
  /\ requests = << >>
  /\ issued = 0
  /\ nominatim = {}
  /\ positionErrors = {}

\* the worker script was parsed; the earlier buckets in names exist
InitWith(names) ==
  /\ phase = "parsed"
  /\ installResult = "none"
  /\ installPromise = "pending"
  /\ cacheStore = [ n \in names |-> InitialBuckets[n] ]
  /\ cacheNames = {}
  /\ toDelete = {}
  /\ deleteFailed = FALSE
  /\ claimed = FALSE
  /\ preActivate = [ n \in {} |-> EmptyBucket ]
  /\ handlers = [ h \in Handlers |-> IdleHandler ]
  /\ started = 0
  /\ pendingPuts = {}
  /\ putRejected = FALSE
  /\ clock = 0
  /\ lastOk = EmptyBucket

\* first installation, or an installation over the buckets of an earlier
\* session and an earlier version
InitSW ==
  /\ \E names \in { {}, { DYNAMIC_CACHE, CACHE_NAME } } : InitWith(names)
  /\ ClsIdle
  /\ GeoIdle
  /\ AppIdle
  /\ StoreIdle

\* installation over any set of existing buckets
InitLifecycle ==
  /\ \E names \in SUBSET DOMAIN InitialBuckets : InitWith(names)
  /\ ClsIdle
  /\ GeoIdle
  /\ AppIdle
  /\ StoreIdle

NextLifecycle ==
  \/ Install
  \/ ActivateKeys
  \/ ActivateDelete
  \/ ActivateFinish

SpecLifecycle == InitLifecycle /\ [][NextLifecycle]_vars

NextSW ==
  \/ Install
  \/ ActivateKeys
  \/ ActivateDelete
  \/ ActivateFinish
  \/ FetchEvent
  \/ CacheFirstOpen
  \/ CacheFirstMatch
  \/ CacheFirstFetch
  \/ NetworkFirstOpen
  \/ NetworkFirstFetch
  \/ NetworkFirstMatch
  \/ PutSettle

SpecSW == InitSW /\ [][NextSW]_vars


(***************************************************************************)
(* Request classification on its own                                       *)
(***************************************************************************)
InitClassify ==
  /\ InitWith({})
  /\ StoreIdle
  /\ GeoIdle
  /\ AppIdle
  /\ clsReq \in AllRequests
  /\ clsOut = "idle"

\* the fetch listener decides about clsReq
ClassifyStep ==
  /\ clsOut = "idle"
  /\ clsOut' = Classify(clsReq)
  /\ UNCHANGED << clsReq, swVars, storeVars, geoVars, appVars >>

SpecClassify == InitClassify /\ [][ClassifyStep]_vars

(***************************************************************************)
(* Record store (src/js/storage.js)                                        *)
(***************************************************************************)
\* a memory as saveMemory is handed it: no id property (id 0)
Memory(photo, location, timestamp, notes) ==
  [ id |-> 0, photo |-> photo, location |-> location, timestamp |-> timestamp,
    notes |-> notes ]

NewMemories ==
  { Memory("p1", "null", 1000, "null"), Memory("p2", "null", 2000, "null") }

\* the memory updateMemory is handed for identifier id
EditedMemory(id) == [ Memory("p1", "Paris", 1000, "edited") EXCEPT !.id = id ]

\* a memory for identifier id that has no photo and no notes property
PartialMemory(id) == [ Memory("undefined", "Paris", 1000, "undefined") EXCEPT !.id = id ]

Max(a, b) == IF a >= b THEN a ELSE b

MaxKey(store) ==
  IF DOMAIN store = {} THEN 0
  ELSE CHOOSE k \in DOMAIN store : \A j \in DOMAIN store : j <= k

\* the key the key generator hands out (autoIncrement: true)
GeneratedKeyMutMax(store, kg) == MaxKey(store) + 1

GeneratedKey(store, kg) == kg

\* the key a record is stored under: its id property, or a generated key
KeyFor(store, kg, rec) == IF rec.id = 0 THEN GeneratedKey(store, kg) ELSE rec.id

\* key generator after a record was stored under key
KeyGenAfter(kg, key) == Max(kg, key + 1)

\* the store after a record was written under key (add, put): the record
\* as handed in, with its id property set to the key
StoreWithMutPatch(store, key, rec) ==
  [ k \in DOMAIN store \cup { key } |->
      IF k # key THEN store[k]
      ELSE IF key \notin DOMAIN store THEN [ rec EXCEPT !.id = key ]
      ELSE [ id |-> key,
             photo |-> IF rec.photo = "undefined" THEN store[k].photo ELSE rec.photo,
             location |-> IF rec.location = "undefined" THEN store[k].location
                          ELSE rec.location,
             timestamp |-> rec.timestamp,
             notes |-> IF rec.notes = "undefined" THEN store[k].notes ELSE rec.notes ] ]

StoreWith(store, key, rec) ==
  [ k \in DOMAIN store \cup { key } |->
      IF k = key THEN [ rec EXCEPT !.id = key ] ELSE store[k] ]

\* objectStore.add(memory) fails when the key is taken (ConstraintError)
AddAllowed(store, kg, rec) == KeyFor(store, kg, rec) \notin DOMAIN store

\* objectStore.getAll(): the records in ascending key order
RECURSIVE GetAll(_)
GetAll(store) ==
  IF DOMAIN store = {} THEN << >>
  ELSE LET k == MaxKey(store)
       IN  Append(GetAll([ j \in DOMAIN store \ { k } |-> store[j] ]), store[k])

\* the comparator of getAllMemories: (a, b) => b.timestamp - a.timestamp
CompareMutAscending(a, b) == a.timestamp - b.timestamp

Compare(a, b) == b.timestamp - a.timestamp

\* Array.prototype.sort with Compare: a stable sort
RECURSIVE InsertSorted(_, _)
InsertSorted(sorted, x) ==
  IF sorted = << >> THEN << x >>
  ELSE IF Compare(sorted[Len(sorted)], x) <= 0 THEN Append(sorted, x)
  ELSE Append(InsertSorted(SubSeq(sorted, 1, Len(sorted) - 1), x), sorted[Len(sorted)])

RECURSIVE Sort(_)
Sort(list) ==
  IF list = << >> THEN << >>
  ELSE InsertSorted(Sort(SubSeq(list, 1, Len(list) - 1)), list[Len(list)])

\* objectStore.get(id): the record stored under id, undefined when none is
GetMutNearest(store, id) ==
  IF DOMAIN store = {} THEN Undefined
  ELSE IF id \in DOMAIN store THEN store[id] ELSE store[MaxKey(store)]

Get(store, id) == IF id \in DOMAIN store THEN store[id] ELSE Undefined

\* objectStore.delete(id): the store without the record under id
DeleteMutRange(store, id) == [ k \in { j \in DOMAIN store : j < id } |-> store[k] ]

Delete(store, id) == [ k \in DOMAIN store \ { id } |-> store[k] ]

\* objectStore.clear(): the store without any record
ClearMutKeepLast(store) == [ k \in DOMAIN store \cap { MaxKey(store) } |-> store[k] ]

Clear(store) == [ k \in {} |-> Undefined ]

\* JSON.stringify of a property: a property whose value is undefined is left
\* out, null is written as null, a number as a number, any other value as a
\* string (photo, notes) or an object (location)
PropertyMutDropNull(name, v) ==
  IF v = "undefined" \/ v = "null" THEN << >>
  ELSE << << name, IF name = "location" THEN "object" ELSE "string", v, 0 >> >>

Property(name, v) ==
  IF v = "undefined" THEN << >>
  ELSE IF v = "null" THEN << << name, "null", "", 0 >> >>
  ELSE << << name, IF name = "location" THEN "object" ELSE "string", v, 0 >> >>

NumberProperty(name, n) == << << name, "number", "", n >> >>

\* JSON.stringify of a memory: its properties in order
Stringify(rec) ==
  (IF rec.id = 0 THEN << >> ELSE NumberProperty("id", rec.id))
    \o Property("photo", rec.photo)
    \o Property("location", rec.location)
    \o NumberProperty("timestamp", rec.timestamp)
    \o Property("notes", rec.notes)

\* reading property name of a parsed JSON object
Has(text, name) == \E i \in 1 .. Len(text) : text[i][1] = name

Entry(text, name) == text[CHOOSE i \in 1 .. Len(text) : text[i][1] = name]

ParseProperty(text, name) ==
  IF ~Has(text, name) THEN "undefined"
  ELSE IF Entry(text, name)[2] = "null" THEN "null"
  ELSE Entry(text, name)[3]

ParseNumber(text, name) == IF Has(text, name) THEN Entry(text, name)[4] ELSE 0

\* JSON.parse of a memory of the export
Parse(text) ==
  [ id |-> ParseNumber(text, "id"), photo |-> ParseProperty(text, "photo"),
    location |-> ParseProperty(text, "location"),
    timestamp |-> ParseNumber(text, "timestamp"),
    notes |-> ParseProperty(text, "notes") ]

\* the text exportData returns for the list getAllMemories resolved with
ExportTextMutCount(memories) ==
  [ exportDate |-> "now", appName |-> "GeoSnap", version |-> "1.0",
    totalMemories |-> Len(SelectSeq(memories, LAMBDA m : m.location # "null")),
    memories |-> [ i \in 1 .. Len(memories) |-> Stringify(memories[i]) ] ]

ExportText(memories) ==
  [ exportDate |-> "now", appName |-> "GeoSnap", version |-> "1.0",
    totalMemories |-> Len(memories),
    memories |-> [ i \in 1 .. Len(memories) |-> Stringify(memories[i]) ] ]

\* the operations the page issues
Call(op, rec, id) == [ n |-> ops + 1, op |-> op, rec |-> rec, id |-> id ]

\* the transaction of an operation runs; ok: the request succeeds
\* (otherwise request.onerror rejects the operation's promise)
Transact(call, ok) ==
  IF call.op = "init"
    THEN /\ lastOp' = Outcome("init", TRUE, 0, << >>)
         /\ UNCHANGED << objectStore, keyGen, created, onlyCreates >>
  ELSE IF call.op = "saveMemory"
    THEN IF ok /\ AddAllowed(objectStore, keyGen, call.rec)
           THEN LET key == KeyFor(objectStore, keyGen, call.rec)
                IN  /\ objectStore' = StoreWith(objectStore, key, call.rec)
                    /\ keyGen' = KeyGenAfter(keyGen, key)
                    /\ lastOp' = Outcome("saveMemory", TRUE, key, << >>)
                    /\ created' = Append(created, [ call.rec EXCEPT !.id = key ])
                    /\ UNCHANGED onlyCreates
           ELSE /\ lastOp' = Outcome("saveMemory", FALSE, 0, << >>)
                /\ UNCHANGED << objectStore, keyGen, created, onlyCreates >>
  ELSE IF call.op = "getAllMemories"
    THEN /\ lastOp' = IF ok THEN Outcome("getAllMemories", TRUE, 0, Sort(GetAll(objectStore)))
                      ELSE Outcome("getAllMemories", FALSE, 0, << >>)
         /\ UNCHANGED << objectStore, keyGen, created, onlyCreates >>
  ELSE IF call.op = "getMemory" \/ call.op = "exportData"
    THEN /\ lastOp' = Outcome(call.op, ok, 0, << >>)
         /\ UNCHANGED << objectStore, keyGen, created, onlyCreates >>
  ELSE IF call.op = "updateMemory"
    THEN /\ onlyCreates' = FALSE
         /\ IF ok
              THEN LET key == KeyFor(objectStore, keyGen, call.rec)
                   IN  /\ objectStore' = StoreWith(objectStore, key, call.rec)
                       /\ keyGen' = KeyGenAfter(keyGen, key)
                       /\ lastOp' = Outcome("updateMemory", TRUE, key, << >>)
              ELSE /\ lastOp' = Outcome("updateMemory", FALSE, 0, << >>)
                   /\ UNCHANGED << objectStore, keyGen >>
         /\ UNCHANGED created
  ELSE IF call.op = "deleteMemory"
    THEN /\ onlyCreates' = FALSE
         /\ IF ok
              THEN /\ objectStore' = Delete(objectStore, call.id)
                   /\ lastOp' = Outcome("deleteMemory", TRUE, 0, << >>)
              ELSE /\ lastOp' = Outcome("deleteMemory", FALSE, 0, << >>)
                   /\ UNCHANGED objectStore
         /\ UNCHANGED << keyGen, created >>
  ELSE /\ onlyCreates' = FALSE
       /\ IF ok
            THEN /\ objectStore' = Clear(objectStore)
                 /\ lastOp' = Outcome("clearAll", TRUE, 0, << >>)
            ELSE /\ lastOp' = Outcome("clearAll", FALSE, 0, << >>)
                 /\ UNCHANGED objectStore
       /\ UNCHANGED << keyGen, created >>

\* why the operation's promise rejected: request.error of the failed request
\* (for add, also of the request whose key is taken)
ErrorOf(call, ok) ==
  IF call.op = "init" THEN ""
  ELSE IF ~ok THEN "RequestError"
  ELSE IF call.op = "saveMemory" /\ ~AddAllowed(objectStore, keyGen, call.rec)
    THEN "ConstraintError"
  ELSE ""

\* what the operation settled with, on the connection handle
Settled(call, ok, handle) ==
  [ call |-> call, error |-> ErrorOf(call, ok), handle |-> handle,
    value |-> IF call.op = "getMemory" /\ ok THEN Get(objectStore, call.id)
              ELSE Undefined,
    json |-> IF call.op = "exportData" /\ ok
               THEN ExportText(Sort(GetAll(objectStore)))
               ELSE NoRun.json ]

\* init() rejected with request.error of the open request, and with it the
\* operation that awaited it
OpenRejectedMutEmpty(call) == Outcome(call.op, TRUE, 0, << >>)

OpenRejected(call) == Outcome(call.op, FALSE, 0, << >>)

\* if (!this.db)
HandleAbsentMutNever(handle) == FALSE

HandleAbsent(handle) == handle = 0

\* if (!this.db) await this.init(); and then the transaction
Issue(call, ok) ==
  /\ ops < MaxOps
  /\ ops' = ops + 1
  /\ IF HandleAbsent(db)
       THEN /\ Cardinality(waiting) < MaxWaiting
            /\ waiting' = waiting \cup { call }
            /\ UNCHANGED << objectStore, keyGen, lastOp, created, onlyCreates, lastRun >>
       ELSE /\ Transact(call, ok)
            /\ lastRun' = Settled(call, ok, db)
            /\ UNCHANGED waiting
  /\ UNCHANGED << db, opens, hasStore, indexes >>
  /\ UNCHANGED << swVars, clsVars, rtVars, geoVars, appVars >>

\* Storage.init() called by the page (App.init)
Init ==
  /\ ops < MaxOps
  /\ ops' = ops + 1
  /\ Cardinality(waiting) < MaxWaiting
  /\ waiting' = waiting \cup { Call("init", Memory("", "", 0, ""), 0) }
  /\ UNCHANGED << db, opens, hasStore, indexes, objectStore, keyGen, lastOp, created, onlyCreates,
                  lastRun >>
  /\ UNCHANGED << swVars, clsVars, rtVars, geoVars, appVars >>

SaveMemory ==
  \E rec \in NewMemories, ok \in BOOLEAN : Issue(Call("saveMemory", rec, 0), ok)

GetAllMemories ==
  \E ok \in BOOLEAN : Issue(Call("getAllMemories", Memory("", "", 0, ""), 0), ok)

GetMemory ==
  \E id \in 1 .. keyGen, ok \in BOOLEAN :
    Issue(Call("getMemory", Memory("", "", 0, ""), id), ok)

UpdateMemory ==
  \E id \in 1 .. keyGen, ok \in BOOLEAN : Issue(Call("updateMemory", EditedMemory(id), id), ok)

\* updateMemory handed a memory that lacks properties the stored record has
UpdateMemoryPartial ==
  \E id \in 1 .. keyGen, ok \in BOOLEAN : Issue(Call("updateMemory", PartialMemory(id), id), ok)

DeleteMemory ==
  \E id \in 1 .. keyGen, ok \in BOOLEAN :
    Issue(Call("deleteMemory", Memory("", "", 0, ""), id), ok)

ExportData ==
  \E ok \in BOOLEAN : Issue(Call("exportData", Memory("", "", 0, ""), 0), ok)

ClearAll ==
  \E ok \in BOOLEAN : Issue(Call("clearAll", Memory("", "", 0, ""), 0), ok)

\* request.onupgradeneeded, for a database whose 'memories' object store
\* exists or not (has), with the records and the indexes it has: the object
\* store and its two indexes are created when the store does not exist
UpgradeNeededMutAlways(has, store, idx) ==
  [ hasStore |-> TRUE, objectStore |-> [ k \in {} |-> Undefined ],
    indexes |-> { "timestamp", "location" } ]

UpgradeNeeded(has, store, idx) ==
  IF ~has
    THEN [ hasStore |-> TRUE, objectStore |-> [ k \in {} |-> Undefined ],
           indexes |-> { "timestamp", "location" } ]
    ELSE [ hasStore |-> has, objectStore |-> store, indexes |-> idx ]

\* the database after indexedDB.open(dbName, dbVersion) succeeded: the
\* upgrade runs when the database is new (its version is below dbVersion);
\* a database that exists was created by an earlier open, at dbVersion
OpenedDatabase(has, store, idx) ==
  IF ~has THEN UpgradeNeeded(has, store, idx)
  ELSE [ hasStore |-> has, objectStore |-> store, indexes |-> idx ]

\* the indexedDB.open request of a suspended operation settles: onsuccess
\* stores the connection (after onupgradeneeded created the object store of
\* a new database) and the operation goes on to its transaction; onerror
\* rejects init() and with it the operation
OpenSettles ==
  /\ \E call \in waiting, opened \in BOOLEAN, ok \in BOOLEAN :
       /\ waiting' = waiting \ { call }
       /\ IF opened
            THEN /\ db' = opens + 1
                 /\ opens' = opens + 1
                 /\ hasStore' = OpenedDatabase(hasStore, objectStore, indexes).hasStore
                 /\ indexes' = OpenedDatabase(hasStore, objectStore, indexes).indexes
                 /\ Transact(call, ok)
                 /\ lastRun' = Settled(call, ok, opens + 1)
            ELSE /\ lastOp' = OpenRejected(call)
                 /\ lastRun' = [ NoRun EXCEPT !.call = call, !.error = "OpenError" ]
                 /\ UNCHANGED << db, opens, hasStore, indexes, objectStore, keyGen,
                                 created, onlyCreates >>
  /\ UNCHANGED ops
  /\ UNCHANGED << swVars, clsVars, rtVars, geoVars, appVars >>

\* a database of an earlier session
EarlierStore ==
  ( 2 :> [ Memory("p0", "null", 1000, "null") EXCEPT !.id = 2 ] )

InitStore ==
  /\ InitWith({})
  /\ ClsIdle
  /\ GeoIdle
  /\ AppIdle
  /\ db = 0
  /\ opens = 0
  /\ waiting = {}
  /\ ops = 0
  /\ lastOp = NoOp
  /\ created = << >>
  /\ lastRun = NoRun
  /\ rtPhase = "idle" /\ rtOriginal = {} /\ rtQueue = << >>
  /\ \/ /\ hasStore = FALSE
        /\ indexes = {}
        /\ objectStore = << >>
        /\ keyGen = 1
        /\ onlyCreates = TRUE
     \/ /\ hasStore = TRUE
        /\ indexes = { "timestamp", "location" }
        /\ objectStore = EarlierStore
        /\ keyGen = 3
        /\ onlyCreates = FALSE

NextStore ==
  \/ Init
  \/ SaveMemory
  \/ GetAllMemories
  \/ UpdateMemory
  \/ DeleteMemory
  \/ ClearAll
  \/ OpenSettles

SpecStore == InitStore /\ [][NextStore]_vars

\* the connection handle: every operation of Storage, from a page whose
\* database does not exist yet
InitHandle == InitStore /\ ~hasStore

NextHandle ==
  \/ Init
  \/ SaveMemory
  \/ GetAllMemories
  \/ GetMemory
  \/ UpdateMemory
  \/ DeleteMemory
  \/ ExportData
  \/ ClearAll
  \/ OpenSettles

SpecHandle == InitHandle /\ [][NextHandle]_vars

\* the page after App.init: Storage.init() resolved, the handle is set
StartupCall ==
  [ n |-> 1, op |-> "init", rec |-> Memory("", "", 0, ""), id |-> 0 ]

InitRecords ==
  /\ InitWith({})
  /\ ClsIdle
  /\ GeoIdle
  /\ AppIdle
  /\ db = 1
  /\ opens = 1
  /\ hasStore = TRUE
  /\ indexes = { "timestamp", "location" }
  /\ waiting = {}
  /\ ops = 1
  /\ lastOp = Outcome("init", TRUE, 0, << >>)
  /\ lastRun = [ NoRun EXCEPT !.call = StartupCall, !.handle = 1 ]
  /\ created = << >>
  /\ rtPhase = "idle" /\ rtOriginal = {} /\ rtQueue = << >>
  /\ \/ /\ objectStore = << >>
        /\ keyGen = 1
        /\ onlyCreates = TRUE
     \/ /\ objectStore = EarlierStore
        /\ keyGen = 3
        /\ onlyCreates = FALSE

NextRecords ==
  \/ SaveMemory
  \/ GetAllMemories
  \/ GetMemory
  \/ UpdateMemory
  \/ UpdateMemoryPartial
  \/ DeleteMemory
  \/ ExportData
  \/ ClearAll

SpecRecords == InitRecords /\ [][NextRecords]_vars

(***************************************************************************)
(* Backup and restore: the text of exportData is read back and every       *)
(* memory it lists is saved again into the cleared store                   *)
(***************************************************************************)
\* what a record holds besides its id
Tuple(rec) == << rec.photo, rec.location, rec.timestamp, rec.notes >>

StoredTuples(store) == { Tuple(store[k]) : k \in DOMAIN store }

ListedTuples(list) == { Tuple(list[i]) : i \in 1 .. Len(list) }

\* what records hold in the stores that are backed up: with and without
\* location and notes, without a photo, with equal timestamps
StoredValues ==
  { Memory("p1", "null", 1000, "null"), Memory("p2", "Paris", 2000, "hello"),
    Memory("undefined", "Paris", 1000, "undefined") }

\* the stores that are backed up: records under some of the ids 1 .. MaxStored
StoreContents ==
  UNION { { [ k \in ids |-> [ f[k] EXCEPT !.id = k ] ] : f \in [ ids -> StoredValues ] } :
          ids \in SUBSET (1 .. MaxStored) }

\* an operation runs on the open handle and settles
Run(call, ok) ==
  /\ ~HandleAbsent(db)
  /\ ops' = ops + 1
  /\ Transact(call, ok)
  /\ lastRun' = Settled(call, ok, db)
  /\ UNCHANGED << db, opens, hasStore, indexes, waiting >>
  /\ UNCHANGED << swVars, clsVars, geoVars >>

\* the caller takes the export and reads the memories it lists
RestoreExport ==
  /\ rtPhase = "start"
  /\ \E ok \in BOOLEAN :
       /\ Run(Call("exportData", Memory("", "", 0, ""), 0), ok)
       /\ rtPhase' = IF ok THEN "exported" ELSE "failed"
       /\ rtQueue' = [ i \in 1 .. Len(lastRun'.json.memories) |->
                         Parse(lastRun'.json.memories[i]) ]
  /\ rtOriginal' = StoredTuples(objectStore)
  /\ UNCHANGED appVars

RestoreClear ==
  /\ rtPhase = "exported"
  /\ \E ok \in BOOLEAN :
       /\ Run(Call("clearAll", Memory("", "", 0, ""), 0), ok)
       /\ rtPhase' = IF ok THEN "cleared" ELSE "failed"
  /\ UNCHANGED << rtOriginal, rtQueue >>
  /\ UNCHANGED appVars

\* one listed memory is saved again, as listed or without its id property
RestoreSave ==
  /\ rtPhase = "cleared"
  /\ \E i \in 1 .. Len(rtQueue), keepId \in BOOLEAN, ok \in BOOLEAN :
       LET memory == IF keepId THEN rtQueue[i] ELSE [ rtQueue[i] EXCEPT !.id = 0 ]
       IN  /\ Run(Call("saveMemory", memory, 0), ok)
           /\ rtPhase' = IF lastOp'.ok THEN "cleared" ELSE "failed"
           /\ rtQueue' = [ j \in 1 .. Len(rtQueue) - 1 |->
                             IF j < i THEN rtQueue[j] ELSE rtQueue[j + 1] ]
  /\ UNCHANGED rtOriginal
  /\ UNCHANGED appVars

\* every listed memory was saved again; the caller reads the store
RestoreRead ==
  /\ rtPhase = "cleared"
  /\ rtQueue = << >>
  /\ \E ok \in BOOLEAN :
       /\ Run(Call("getAllMemories", Memory("", "", 0, ""), 0), ok)
       /\ rtPhase' = IF ok THEN "done" ELSE "failed"
  /\ UNCHANGED << rtOriginal, rtQueue >>
  /\ UNCHANGED appVars

InitRestore ==
  /\ InitWith({})
  /\ ClsIdle
  /\ GeoIdle
  /\ AppIdle
  /\ db = 1
  /\ opens = 1
  /\ hasStore = TRUE
  /\ indexes = { "timestamp", "location" }
  /\ waiting = {}
  /\ ops = 1
  /\ lastOp = Outcome("init", TRUE, 0, << >>)
  /\ lastRun = [ NoRun EXCEPT !.call = StartupCall, !.handle = 1 ]
  /\ created = << >>
  /\ onlyCreates = FALSE
  /\ objectStore \in StoreContents
  /\ keyGen = MaxStored + 1
  /\ rtPhase = "start"
  /\ rtOriginal = {}
  /\ rtQueue = << >>

NextRestore ==
  \/ RestoreExport
  \/ RestoreClear
  \/ RestoreSave
  \/ RestoreRead

SpecRestore == InitRestore /\ [][NextRestore]_vars


(***************************************************************************)
(* Location requests (src/js/geolocation.js)                               *)
(***************************************************************************)
Calls == 1 .. MaxCalls

\* the text a location is named by: a readable name, or (fixed) the
\* coordinates with four decimals
Name(text) == [ text |-> text, fixed |-> << >> ]

NoLocation == [ latitude |-> 0, longitude |-> 0, locationName |-> Name(""), accuracy |-> 0 ]

\* positions the platform reports; coordinates in units of 0.00001 degree
Positions ==
  { [ latitude |-> 4885661, longitude |-> 235222, accuracy |-> 10 ],
    [ latitude |-> -3392527, longitude |-> 1842335, accuracy |-> 25 ] }

\* what the Nominatim request of reverseGeocode ends with: fetch rejects
\* (status 0), or resolves with a status, a body that parses as JSON or not,
\* and in it an address (present or not) with its city, state and country
\* ("": the property is absent)
Geocode(status, json, present, city, state, country) ==
  [ status |-> status, json |-> json,
    address |-> [ present |-> present, city |-> city, state |-> state, country |-> country ] ]

GeocodeResponses ==
  { Geocode(0, FALSE, FALSE, "", "", ""),
    Geocode(503, TRUE, FALSE, "", "", ""),
    Geocode(200, FALSE, FALSE, "", "", ""),
    Geocode(200, TRUE, FALSE, "", "", ""),
    Geocode(200, TRUE, TRUE, "", "", ""),
    Geocode(200, TRUE, TRUE, "Paris", "Ile-de-France", "France"),
    Geocode(200, TRUE, TRUE, "", "Western Cape", "South Africa") }

\* the location string reverseGeocode builds from data.address
AddressName(address) ==
  IF address.city # ""
    THEN IF address.country # "" /\ address.country # address.city
           THEN address.city \o ", " \o address.country
           ELSE address.city
  ELSE IF address.state # ""
    THEN IF address.country # "" THEN address.state \o ", " \o address.country
         ELSE address.state
  ELSE address.country

\* what the promise of reverseGeocode settles with: every failure is caught
\* and resolves with null (""), as does an address without a usable name
ReverseGeocodeMutRethrow(response) ==
  IF response.status = 0 \/ response.status \notin 200 .. 299 \/ ~response.json
    THEN [ settled |-> "rejected", name |-> "" ]
  ELSE IF ~response.address.present THEN [ settled |-> "resolved", name |-> "" ]
  ELSE [ settled |-> "resolved", name |-> AddressName(response.address) ]

ReverseGeocode(response) ==
  IF response.status = 0 \/ response.status \notin 200 .. 299 \/ ~response.json
    THEN [ settled |-> "resolved", name |-> "" ]
  ELSE IF ~response.address.present THEN [ settled |-> "resolved", name |-> "" ]
  ELSE [ settled |-> "resolved", name |-> AddressName(response.address) ]

\* the names reverseGeocode resolves with
GeocodedNames == { ReverseGeocode(response).name : response \in GeocodeResponses }

\* error.code of a GeolocationPositionError (0: a code the switch does not know)
ErrorCodes == { 0, 1, 2, 3 }

\* x.toFixed(4) of a coordinate in units of 0.00001 degree, in units of
\* 0.0001 degree
ToFixed(x) == IF x >= 0 THEN (x + 5) \div 10 ELSE -((5 - x) \div 10)

\* the name the success callback has after its try block around
\* await this.reverseGeocode(...): a rejection is caught and leaves no name
Awaited(geocoded) == IF geocoded.settled = "resolved" THEN geocoded.name ELSE ""

\* the object the success callback resolves with
LocationMutNoFallback(position, name) ==
  [ latitude |-> position.latitude,
    longitude |-> position.longitude,
    locationName |-> Name(name),
    accuracy |-> position.accuracy ]

Location(position, name) ==
  [ latitude |-> position.latitude,
    longitude |-> position.longitude,
    locationName |->
      IF name # "" THEN Name(name)
      ELSE [ text |-> "", fixed |-> << ToFixed(position.latitude), ToFixed(position.longitude) >> ],
    accuracy |-> position.accuracy ]

InProgress == "Location request already in progress"
Unsupported == "Geolocation is not supported by your browser"

\* the message the error callback rejects with
ErrorMessage(code) ==
  CASE code = 1 -> "Location permission denied. Please enable location access in your browser settings."
    [] code = 2 -> "Location information unavailable. Are you indoors or in an area with poor GPS signal?"
    [] code = 3 -> "Location request timed out. Try again?"
    [] OTHER -> "Unable to retrieve your location"

IdleRequest ==
  [ pc |-> "idle", platform |-> FALSE, promise |-> "pending", resolved |-> FALSE,
    geocoding |-> FALSE, fired |-> {}, first |-> "none",
    response |-> Geocode(0, FALSE, FALSE, "", "", ""),
    position |-> [ latitude |-> 0, longitude |-> 0, accuracy |-> 0 ],
    value |-> NoLocation, error |-> "" ]

\* requesting after the guard at the head of getCurrentPosition threw: the
\* throw is outside the try block, so the finally block does not run
GuardThrewMutInsideTry(flag) == FALSE

GuardThrew(flag) == flag

\* requesting after the finally block
FinallyMutKeep(flag) == flag

Finally(flag) == FALSE

\* if (resolved) return; at the head of the error callback
IgnoredMutNever(resolved) == FALSE

Ignored(resolved) == resolved

\* getCurrentPosition up to its first await (or to the throw that rejects
\* it), called with the flag and with navigator.geolocation present or not:
\* the call's record and the flag afterwards
Requested(flag, supported) ==
  IF flag
    THEN [ request |-> [ IdleRequest EXCEPT !.pc = "done", !.error = InProgress ],
           requesting |-> GuardThrew(flag) ]
  ELSE IF ~supported
    THEN [ request |-> [ IdleRequest EXCEPT !.pc = "done", !.error = Unsupported ],
           requesting |-> Finally(TRUE) ]
  ELSE [ request |-> [ IdleRequest EXCEPT !.pc = "waiting", !.platform = TRUE ],
         requesting |-> TRUE ]

\* a caller calls GeoLocation.getCurrentPosition(): the function runs up to
\* its first await (or to the throw that rejects it)
GetCurrentPosition ==
  /\ issued < MaxCalls
  /\ issued' = issued + 1
  /\ requests' = [ requests EXCEPT ![issued + 1] = Requested(requesting, geolocation).request ]
  /\ requesting' = Requested(requesting, geolocation).requesting
  /\ UNCHANGED << geolocation, nominatim, positionErrors >>
  /\ UNCHANGED << swVars, clsVars, storeVars, appVars >>

\* the platform invokes the success callback of a request (at most once);
\* the callback runs up to await this.reverseGeocode(...)
SuccessCallback ==
  /\ \E c \in Calls, position \in Positions :
       /\ requests[c].platform
       /\ "success" \notin requests[c].fired
       /\ requests' = [ requests EXCEPT ![c] =
            IF requests[c].resolved
              THEN [ @ EXCEPT !.fired = @ \cup { "success" } ]
              ELSE [ @ EXCEPT !.fired = @ \cup { "success" },
                              !.first = IF requests[c].fired = {} THEN "success" ELSE @,
                              !.resolved = TRUE, !.geocoding = TRUE,
                              !.position = position ] ]
  /\ UNCHANGED << requesting, geolocation, issued, nominatim, positionErrors >>
  /\ UNCHANGED << swVars, clsVars, storeVars, appVars >>

\* reverseGeocode resolved with name (null when it failed): the success
\* callback calls resolve(...), which settles the promise unless it is
\* settled already
ReverseGeocoded ==
  /\ \E c \in Calls, response \in nominatim :
       /\ requests[c].geocoding
       /\ requests' = [ requests EXCEPT ![c] =
            IF requests[c].promise = "pending"
              THEN [ @ EXCEPT !.geocoding = FALSE, !.promise = "fulfilled",
                              !.response = response,
                              !.value = Location(requests[c].position,
                                                 Awaited(ReverseGeocode(response))),
                              !.pc = "settling" ]
              ELSE [ @ EXCEPT !.geocoding = FALSE ] ]
  /\ UNCHANGED << requesting, geolocation, issued, nominatim, positionErrors >>
  /\ UNCHANGED << swVars, clsVars, storeVars, appVars >>

\* getCurrentPosition resumes from await with the fulfilled promise: the
\* finally block runs and the call resolves
Resume ==
  /\ \E c \in Calls :
       /\ requests[c].pc = "settling"
       /\ requests' = [ requests EXCEPT ![c].pc = "done" ]
  /\ requesting' = Finally(requesting)
  /\ UNCHANGED << geolocation, issued, nominatim, positionErrors >>
  /\ UNCHANGED << swVars, clsVars, storeVars, appVars >>

\* the platform invokes the error callback of a request (at most once).
\* When the callback rejects the promise, the job that resumes
\* getCurrentPosition is the only one queued as the callback returns, so the
\* finally block and the rejection of the call follow before any other code
\* of the page runs
ErrorCallback ==
  /\ \E c \in Calls, code \in positionErrors :
       /\ requests[c].platform
       /\ "error" \notin requests[c].fired
       /\ IF Ignored(requests[c].resolved)
            THEN /\ requests' = [ requests EXCEPT ![c].fired = @ \cup { "error" } ]
                 /\ UNCHANGED requesting
            ELSE /\ requests' = [ requests EXCEPT ![c] =
                      IF requests[c].promise = "pending"
                        THEN [ @ EXCEPT !.fired = @ \cup { "error" },
                                        !.first = IF requests[c].fired = {} THEN "error" ELSE @,
                                        !.resolved = TRUE, !.promise = "rejected",
                                        !.error = ErrorMessage(code), !.pc = "done" ]
                        ELSE [ @ EXCEPT !.fired = @ \cup { "error" }, !.resolved = TRUE ] ]
                 /\ requesting' = IF requests[c].promise = "pending" THEN Finally(FALSE) ELSE FALSE
  /\ UNCHANGED << geolocation, issued, nominatim, positionErrors >>
  /\ UNCHANGED << swVars, clsVars, storeVars, appVars >>

\* the page has loaded geolocation.js; the browser has navigator.geolocation
\* or not
InitGeo ==
  /\ InitWith({})
  /\ ClsIdle
  /\ StoreIdle
  /\ AppIdle
  /\ requesting = FALSE
  /\ geolocation \in BOOLEAN
  /\ requests = [ c \in Calls |-> IdleRequest ]
  /\ issued = 0
  /\ nominatim = { Geocode(0, FALSE, FALSE, "", "", ""),
                   Geocode(200, TRUE, TRUE, "Paris", "Ile-de-France", "France") }
  /\ positionErrors = ErrorCodes

NextGeo ==
  \/ GetCurrentPosition
  \/ SuccessCallback
  \/ ReverseGeocoded
  \/ Resume
  \/ ErrorCallback

SpecGeo == InitGeo /\ [][NextGeo]_vars

\* the last call the page makes, after calls that timed out, with a
\* Nominatim request that can end in every way
InitGeocode ==
  /\ InitWith({})
  /\ ClsIdle
  /\ StoreIdle
  /\ AppIdle
  /\ requesting = FALSE
  /\ geolocation = TRUE
  /\ requests =
       [ c \in Calls |->
           IF c < MaxCalls
             THEN [ IdleRequest EXCEPT !.pc = "done", !.platform = TRUE,
                                       !.promise = "rejected", !.resolved = TRUE,
                                       !.fired = { "error" }, !.first = "error",
                                       !.error = ErrorMessage(3) ]
             ELSE IdleRequest ]
  /\ issued = MaxCalls - 1
  /\ nominatim = GeocodeResponses
  /\ positionErrors = ErrorCodes

SpecGeocode == InitGeocode /\ [][NextGeo]_vars

(***************************************************************************)
(* The feed, the search box and the upload modal (app.js, UI module)       *)
(***************************************************************************)
\* text.toLowerCase() as its characters, for the texts the memories and the
\* search box hold; a missing location or missing notes count as ''
ToLowerCase(text) ==
  IF text = "Paris" THEN << "p", "a", "r", "i", "s" >>
  ELSE IF text = "Rome" THEN << "r", "o", "m", "e" >>
  ELSE IF text = "Trip" THEN << "t", "r", "i", "p" >>
  ELSE << >>

\* what the search box holds, lower-cased
Queries == { << >>, << "p", "a" >>, << "r" >>, << "z" >> }

\* the filter callback of applyFilters
Matches(memory, query) ==
  Includes(ToLowerCase(memory.location), query) \/ Includes(ToLowerCase(memory.notes), query)

\* memories.filter(callback)
RECURSIVE Filter(_, _)
Filter(list, query) ==
  IF list = << >> THEN << >>
  ELSE IF Matches(list[Len(list)], query)
    THEN Append(Filter(SubSeq(list, 1, Len(list) - 1), query), list[Len(list)])
  ELSE Filter(SubSeq(list, 1, Len(list) - 1), query)

\* App.filteredMemories after applyFilters (sortOrder stays 'newest': the
\* sort select is not operated)
ApplyFilters(list, query) == Sort(IF query # << >> THEN Filter(list, query) ELSE list)

\* what renderFeed puts into the grid
RenderFeed(filtered, list, query) ==
  LET memoriesToShow == IF Len(filtered) > 0 THEN filtered ELSE list
  IN  IF Len(memoriesToShow) = 0
        THEN [ state |-> IF query # << >> THEN "No results found" ELSE "No memories yet",
               cards |-> << >> ]
        ELSE [ state |-> "cards", cards |-> memoriesToShow ]

\* UI.closeModal(): the current modal and the pending upload afterwards
ClosedModal(modal, pending) ==
  IF modal # "null"
    THEN LET current == "null"
         IN  [ currentModal |-> current,
               pendingUpload |-> IF current = "upload" THEN NoUpload ELSE pending ]
    ELSE [ currentModal |-> modal, pendingUpload |-> pending ]

(***************************************************************************)
(* Camera, views and the capture button (src/js/camera.js, app.js)         *)
(***************************************************************************)
\* Camera.stop()
CameraStop(cam) ==
  IF cam.stream # 0
    THEN [ cam EXCEPT !.live = @ \ { cam.stream }, !.stream = 0, !.isActive = FALSE ]
    ELSE cam

\* Camera.start() up to await navigator.mediaDevices.getUserMedia(...)
CameraStart(cam) == IF cam.isActive THEN cam ELSE [ cam EXCEPT !.starting = @ + 1 ]

\* the camera after App.switchView(viewId)
SwitchView(viewId, cam) ==
  IF viewId = "camera-view" THEN CameraStart(cam)
  ELSE IF viewId = "feed-view" THEN CameraStop(cam)
  ELSE cam

\* a click on a navigation button
Navigate ==
  /\ switches < MaxSwitches
  /\ switches' = switches + 1
  /\ \E viewId \in { "feed-view", "camera-view", "map-view" } :
       /\ currentView' = viewId
       /\ camera' = SwitchView(viewId, camera)
  /\ UNCHANGED << captures, captured, appMemories >>
  /\ UNCHANGED uiVars
  /\ UNCHANGED << swVars, clsVars, storeVars, geoVars >>

\* getUserMedia settles and Camera.start() resumes: with a stream it sets
\* Camera.stream and isActive, on a rejection it only reports the error
UserMediaSettles ==
  /\ camera.starting > 0
  /\ \E ok \in BOOLEAN :
       camera' =
         IF ok
           THEN [ camera EXCEPT !.starting = @ - 1, !.stream = camera.opened + 1,
                                !.opened = @ + 1, !.live = @ \cup { camera.opened + 1 },
                                !.isActive = TRUE ]
           ELSE [ camera EXCEPT !.starting = @ - 1 ]
  /\ UNCHANGED << currentView, switches, captures, captured, appMemories >>
  /\ UNCHANGED uiVars
  /\ UNCHANGED << swVars, clsVars, storeVars, geoVars >>

InitCamera ==
  /\ InitWith({})
  /\ ClsIdle
  /\ StoreIdle
  /\ GeoIdle
  /\ AppIdle

NextCamera ==
  \/ Navigate
  \/ UserMediaSettles

SpecCamera == InitCamera /\ [][NextCamera]_vars

IdleCapture == [ pc |-> "idle", photo |-> "", call |-> 0, id |-> 0 ]

\* locationData of capturePhoto once the location call has settled (null
\* when it rejected), as the store keeps it
LocationDataMutUndefined(request) ==
  IF request.error # "" THEN "undefined"
  ELSE IF request.value.locationName.text # "" THEN request.value.locationName.text
  ELSE "coordinates"

LocationData(request) ==
  IF request.error # "" THEN "null"
  ELSE IF request.value.locationName.text # "" THEN request.value.locationName.text
  ELSE "coordinates"

\* a click on the capture button: capturePhoto runs Camera.capture() and,
\* unless that throws, up to the first await of getCurrentPosition
CapturePhoto ==
  /\ captured < MaxCaptures
  /\ issued < MaxCalls
  /\ currentView = "camera-view"
  /\ captured' = captured + 1
  /\ IF ~camera.isActive
       THEN /\ captures' = [ captures EXCEPT ![captured + 1] =
                               [ IdleCapture EXCEPT !.pc = "failed" ] ]
            /\ UNCHANGED geoVars
       ELSE /\ captures' = [ captures EXCEPT ![captured + 1] =
                               [ IdleCapture EXCEPT !.pc = "locating", !.photo = "p1",
                                                    !.call = issued + 1 ] ]
            /\ issued' = issued + 1
            /\ requests' = [ requests EXCEPT ![issued + 1] =
                               Requested(requesting, geolocation).request ]
            /\ requesting' = Requested(requesting, geolocation).requesting
            /\ UNCHANGED << geolocation, nominatim, positionErrors >>
  /\ UNCHANGED << currentView, camera, switches, appMemories >>
  /\ UNCHANGED uiVars
  /\ UNCHANGED << swVars, clsVars, storeVars >>

\* the location call of a capture has settled: capturePhoto saves the
\* memory, reloads App.memories and starts the timer; a rejected saveMemory
\* ends it in the outer catch
CaptureSave ==
  /\ \E i \in 1 .. MaxCaptures, ok \in BOOLEAN, loaded \in BOOLEAN :
       /\ captures[i].pc = "locating"
       /\ requests[captures[i].call].pc = "done"
       /\ Run(Call("saveMemory",
                   Memory(captures[i].photo, LocationData(requests[captures[i].call]),
                          3000 + i, "undefined"), 0), ok)
       /\ captures' = [ captures EXCEPT ![i].pc = IF lastOp'.ok THEN "saved" ELSE "failed",
                                        ![i].id = lastOp'.id ]
       /\ appMemories' = IF ~lastOp'.ok THEN appMemories
                         ELSE IF loaded THEN Sort(GetAll(objectStore'))
                         ELSE << >>
       /\ filteredMemories' = IF ~lastOp'.ok THEN filteredMemories ELSE appMemories'
       /\ feed' = IF ~lastOp'.ok THEN feed
                  ELSE RenderFeed(appMemories', appMemories', searchQuery)
  /\ UNCHANGED << currentView, camera, switches, captured, searchQuery, currentModal,
                  pendingUpload >>
  /\ UNCHANGED rtVars

\* the timer of capturePhoto fires: switchView('feed-view') and Camera.stop()
CaptureTimer ==
  /\ \E i \in 1 .. MaxCaptures :
       /\ captures[i].pc = "saved"
       /\ captures' = [ captures EXCEPT ![i].pc = "done" ]
  /\ currentView' = "feed-view"
  /\ camera' = CameraStop(SwitchView("feed-view", camera))
  /\ UNCHANGED << switches, captured, appMemories >>
  /\ UNCHANGED uiVars
  /\ UNCHANGED << swVars, clsVars, storeVars, geoVars >>

\* the camera view is open, the camera running or refused; the store is open
\* and empty
InitCapture ==
  /\ InitWith({})
  /\ ClsIdle
  /\ db = 1 /\ opens = 1 /\ hasStore = TRUE /\ indexes = { "timestamp", "location" }
  /\ waiting = {} /\ ops = 1
  /\ lastOp = Outcome("init", TRUE, 0, << >>)
  /\ lastRun = [ NoRun EXCEPT !.call = StartupCall, !.handle = 1 ]
  /\ created = << >>
  /\ rtPhase = "idle" /\ rtOriginal = {} /\ rtQueue = << >>
  /\ objectStore = << >> /\ keyGen = 1 /\ onlyCreates = TRUE
  /\ requesting = FALSE
  /\ geolocation \in BOOLEAN
  /\ requests = [ c \in Calls |-> IdleRequest ]
  /\ issued = 0
  /\ nominatim = { Geocode(0, FALSE, FALSE, "", "", "") }
  /\ positionErrors \in { { 1 }, { 3 } }
  /\ currentView = "camera-view"
  /\ camera \in { NoCamera, [ NoCamera EXCEPT !.stream = 1, !.isActive = TRUE,
                                              !.opened = 1, !.live = { 1 } ] }
  /\ switches = 1
  /\ captures = [ i \in 1 .. MaxCaptures |-> IdleCapture ]
  /\ captured = 0
  /\ appMemories = << >>
  /\ searchQuery = << >>
  /\ filteredMemories = << >>
  /\ feed = [ state |-> "No memories yet", cards |-> << >> ]
  /\ currentModal = "null"
  /\ pendingUpload = NoUpload

NextCapture ==
  \/ CapturePhoto
  \/ SuccessCallback
  \/ ReverseGeocoded
  \/ Resume
  \/ ErrorCallback
  \/ CaptureSave
  \/ CaptureTimer

SpecCapture == InitCapture /\ [][NextCapture]_vars

(***************************************************************************)
(* The page: search box, modals and uploads                                *)
(***************************************************************************)
\* the input listener of the search box
SearchInput ==
  /\ \E query \in Queries :
       /\ searchQuery' = query
       /\ filteredMemories' = ApplyFilters(appMemories, query)
       /\ feed' = RenderFeed(ApplyFilters(appMemories, query), appMemories, query)
  /\ UNCHANGED << currentView, camera, switches, captures, captured, appMemories,
                  currentModal, pendingUpload >>
  /\ UNCHANGED << swVars, clsVars, storeVars, geoVars >>

\* UI.openModal(modalId): the upload buttons, the pick-on-map button
OpenModal ==
  /\ \E modalId \in { "upload", "location" } : currentModal' = modalId
  /\ UNCHANGED << currentView, camera, switches, captures, captured, appMemories,
                  searchQuery, filteredMemories, feed, pendingUpload >>
  /\ UNCHANGED << swVars, clsVars, storeVars, geoVars >>

\* the close button, the overlay, the cancel button or the Escape key
CloseModal ==
  /\ currentModal # "null"
  /\ currentModal' = ClosedModal(currentModal, pendingUpload).currentModal
  /\ pendingUpload' = ClosedModal(currentModal, pendingUpload).pendingUpload
  /\ UNCHANGED << currentView, camera, switches, captures, captured, appMemories,
                  searchQuery, filteredMemories, feed >>
  /\ UNCHANGED << swVars, clsVars, storeVars, geoVars >>

\* UI.handleFileSelection(file) with the load of its FileReader: an image
\* file becomes the pending upload, any other file only raises a toast
HandleFileSelection ==
  /\ currentModal = "upload"
  /\ \E image \in BOOLEAN, file \in NewMemories :
       pendingUpload' =
         IF image THEN [ set |-> TRUE, photo |-> file.photo, timestamp |-> file.timestamp ]
         ELSE pendingUpload
  /\ UNCHANGED << currentView, camera, switches, captures, captured, appMemories,
                  searchQuery, filteredMemories, feed, currentModal >>
  /\ UNCHANGED << swVars, clsVars, storeVars, geoVars >>

\* the save button of the upload modal: App.saveUpload() with its
\* saveMemory, closeModal, loadMemories, renderFeed and switchView
SaveUpload ==
  /\ pendingUpload.set
  /\ ops < MaxOps
  /\ \E ok \in BOOLEAN, loaded \in BOOLEAN, input \in { << "", "" >>, << "Rome", "Trip" >> } :
       /\ Run(Call("saveMemory",
                   Memory(pendingUpload.photo,
                          IF input[1] # "" THEN input[1] ELSE "null",
                          pendingUpload.timestamp,
                          IF input[2] # "" THEN input[2] ELSE "null"), 0), ok)
       /\ IF lastOp'.ok
            THEN /\ currentModal' = ClosedModal(currentModal, pendingUpload).currentModal
                 /\ pendingUpload' = ClosedModal(currentModal, pendingUpload).pendingUpload
                 /\ appMemories' = IF loaded THEN Sort(GetAll(objectStore')) ELSE << >>
                 /\ filteredMemories' = appMemories'
                 /\ feed' = RenderFeed(appMemories', appMemories', searchQuery)
                 /\ currentView' = "feed-view"
                 /\ camera' = SwitchView("feed-view", camera)
            ELSE UNCHANGED << currentModal, pendingUpload, appMemories, filteredMemories,
                              feed, currentView, camera >>
  /\ UNCHANGED << switches, captures, captured, searchQuery >>
  /\ UNCHANGED rtVars

\* what the store holds when the page is opened
StoredMemories ==
  { << >>,
    << [ Memory("p1", "Paris", 1000, "null") EXCEPT !.id = 1 ] >>,
    << [ Memory("p1", "Paris", 1000, "null") EXCEPT !.id = 1 ],
       [ Memory("p2", "null", 2000, "Trip") EXCEPT !.id = 2 ] >> }

\* the page after App.init: the store is open, App.memories is loaded and
\* the feed is rendered
InitUI ==
  /\ InitWith({})
  /\ ClsIdle
  /\ GeoIdle
  /\ db = 1 /\ opens = 1 /\ hasStore = TRUE /\ indexes = { "timestamp", "location" }
  /\ waiting = {} /\ ops = 1
  /\ lastOp = Outcome("init", TRUE, 0, << >>)
  /\ lastRun = [ NoRun EXCEPT !.call = StartupCall, !.handle = 1 ]
  /\ created = << >>
  /\ rtPhase = "idle" /\ rtOriginal = {} /\ rtQueue = << >>
  /\ objectStore \in StoredMemories
  /\ keyGen = Len(objectStore) + 1
  /\ onlyCreates = TRUE
  /\ currentView = "feed-view"
  /\ camera = NoCamera
  /\ switches = 0
  /\ captures = << >>
  /\ captured = 0
  /\ appMemories = Sort(GetAll(objectStore))
  /\ searchQuery = << >>
  /\ filteredMemories = appMemories
  /\ feed = RenderFeed(filteredMemories, appMemories, searchQuery)
  /\ currentModal = "null"
  /\ pendingUpload = NoUpload

NextUI ==
  \/ SearchInput
  \/ OpenModal
  \/ CloseModal
  \/ HandleFileSelection
  \/ SaveUpload

SpecUI == InitUI /\ [][NextUI]_vars

(***************************************************************************)
(* Properties                                                              *)
(***************************************************************************)
Done(h) == handlers[h].pc = "done"

\* C1: a strategy's promise never rejects and resolves with a response; when
\* the fetch threw and the bucket holds no entry for the request the response
\* is the 503 with a text/plain body
StrategyAlwaysResolves ==
  \A h \in Handlers :
    handlers[h].strategy # "none" =>
      /\ handlers[h].settled # "rejected"
      /\ Done(h) => handlers[h].settled = "resolved" /\ handlers[h].resp # NoResp
      /\ Done(h) /\ handlers[h].threw /\ ~handlers[h].heldAtSettle =>
           handlers[h].resp.status = 503 /\ handlers[h].resp.ctype = "text/plain"

\* both strategies answered 503 after a failed fetch with nothing stored, and
\* a handler whose bucket could not be opened resolved as well
StrategyAlwaysResolvesWitness ==
  /\ \E h \in Handlers :
       /\ Done(h) /\ handlers[h].strategy = "networkFirst"
       /\ handlers[h].threw /\ ~handlers[h].heldAtSettle
       /\ handlers[h].resp = OfflineResponse
  /\ \E h \in Handlers :
       /\ Done(h) /\ handlers[h].strategy = "cacheFirst"
       /\ handlers[h].threw /\ ~handlers[h].heldAtSettle
       /\ handlers[h].resp = OfflineResponse

\* a cache-first request for a manifest path that was in the static bucket
\* when the request arrived, after a complete install
ManifestHit(h) ==
  /\ Done(h)
  /\ handlers[h].strategy = "cacheFirst"
  /\ installResult = "complete"
  /\ handlers[h].req.pathname \in STATIC_ASSETS
  /\ handlers[h].heldAtStart

\* C2 as stated: such a request returns the stored entry and fetches nothing
CachedAssetAlwaysServed ==
  \A h \in Handlers :
    ManifestHit(h) => handlers[h].resp = handlers[h].entry /\ handlers[h].fetched = 0

\* C2 amended: such a request fetches nothing; it returns the stored entry
\* (for a manifest URL the copy of install time) when the bucket could be
\* opened and read, and the 503 otherwise
CachedAssetServedUnlessCacheFails ==
  \A h \in Handlers :
    ManifestHit(h) =>
      /\ handlers[h].fetched = 0
      /\ ~handlers[h].cacheErr =>
           /\ handlers[h].resp = handlers[h].entry
           /\ handlers[h].resp.status # 503
           /\ Key(handlers[h].req) = AssetKey(handlers[h].req.pathname) =>
                handlers[h].resp = OriginResp(200, 0)
      /\ handlers[h].cacheErr => handlers[h].resp = OfflineResponse

CachedAssetServedWitness ==
  \E h \in Handlers :
    /\ ManifestHit(h)
    /\ handlers[h].req = ReqIndex
    /\ ~handlers[h].cacheErr
    /\ handlers[h].resp = OriginResp(200, 0)

\* no handler is running and no put is pending
Quiescent ==
  /\ pendingPuts = {}
  /\ \A h \in Handlers : handlers[h].pc \in { "idle", "done", "passthrough" }

\* C3: once all writes have settled (none of them rejected), the dynamic
\* bucket's entry of every identity fetched network-first equals the latest
\* 2xx response received
LatestResponseStored ==
  Quiescent /\ ~putRejected =>
    \A k \in DOMAIN lastOk : Match(cacheStore, DYNAMIC_CACHE, k) = lastOk[k]

\* C4 as stated: the fallback lookup of networkFirst returns the entry the
\* dynamic bucket holds, and leaves the buckets unchanged
FallbackAlwaysServesEntry ==
  [][ \A h \in Handlers :
        ( /\ handlers[h].pc = "nf_match"
          /\ handlers'[h].pc = "done"
          /\ Holds(cacheStore, DYNAMIC_CACHE, Key(handlers[h].req)) )
        => /\ handlers'[h].resp = cacheStore[DYNAMIC_CACHE][Key(handlers[h].req)]
           /\ cacheStore' = cacheStore ]_vars

\* C4 amended: when the lookup itself succeeds the stored entry is returned,
\* when it fails the 503 is; the buckets are unchanged either way
FallbackServesEntryUnlessLookupFails ==
  [][ \A h \in Handlers :
        ( /\ handlers[h].pc = "nf_match"
          /\ handlers'[h].pc = "done"
          /\ Holds(cacheStore, DYNAMIC_CACHE, Key(handlers[h].req)) )
        => /\ handlers[h].threw
           /\ handlers'[h].settled = "resolved"
           /\ ~handlers'[h].cacheErr =>
                handlers'[h].resp = cacheStore[DYNAMIC_CACHE][Key(handlers[h].req)]
           /\ handlers'[h].cacheErr => handlers'[h].resp = OfflineResponse
           /\ cacheStore' = cacheStore ]_vars

FallbackServesEntryWitness ==
  \E h \in Handlers :
    /\ Done(h) /\ handlers[h].strategy = "networkFirst"
    /\ handlers[h].threw /\ handlers[h].heldAtSettle /\ ~handlers[h].cacheErr
    /\ handlers[h].resp = handlers[h].entry
    /\ IsOk(handlers[h].resp)

\* C5: a failed asset fetch fails the install (the promise given to waitUntil
\* rejects, the worker does not activate), so an active worker has an entry
\* for every manifest path
FailedInstallNeverActivates ==
  /\ installResult = "assetFailed" =>
       installPromise = "rejected" /\ phase \notin { "activating", "activated" }
  /\ phase = "activated" =>
       \A a \in STATIC_ASSETS : Holds(cacheStore, STATIC_CACHE, AssetKey(a))

\* C6: when activation has completed (all deletions fulfilled, clients
\* claimed) no bucket but the current two exists, and the current buckets
\* that existed when activation started hold exactly the entries they held
ActivationKeepsCurrentBuckets ==
  claimed /\ started = 0 =>
    /\ DOMAIN cacheStore \subseteq { STATIC_CACHE, DYNAMIC_CACHE }
    /\ \A n \in { STATIC_CACHE, DYNAMIC_CACHE } :
         n \in DOMAIN preActivate =>
           n \in DOMAIN cacheStore /\ cacheStore[n] = preActivate[n]

ActivationKeepsCurrentBucketsWitness ==
  /\ claimed /\ started = 0
  /\ { CACHE_NAME, OldStatic } \subseteq cacheNames
  /\ DOMAIN cacheStore = { STATIC_CACHE, DYNAMIC_CACHE }
  /\ cacheStore[DYNAMIC_CACHE] = InitialBuckets[DYNAMIC_CACHE]

\* C7: a GET http(s) request gets exactly the strategy of the first matching
\* rule: manifest path, then unpkg.com or a host name containing
\* tile.openstreetmap.org (both cache-first, static bucket), then anything
\* else, nominatim.openstreetmap.org included (network-first, dynamic bucket)
ClassificationByFirstMatch ==
  ( /\ clsOut # "idle"
    /\ clsReq.method = "GET"
    /\ clsReq.protocol \in { ProtoHttp, ProtoHttps } )
  => LET manifest == clsReq.pathname \in STATIC_ASSETS
         tileHost == \E i \in 1 .. Len(clsReq.hostname) - 2 :
                       /\ clsReq.hostname[i] = "tile"
                       /\ clsReq.hostname[i + 1] = "openstreetmap"
                       /\ clsReq.hostname[i + 2] = "org"
         library == clsReq.hostname = << "unpkg", "com" >> \/ tileHost
     IN  /\ clsOut \in { "cacheFirst", "networkFirst" }
         /\ manifest => clsOut = "cacheFirst"
         /\ ~manifest /\ library => clsOut = "cacheFirst"
         /\ ~manifest /\ ~library => clsOut = "networkFirst"
         /\ BucketOf(clsOut) = IF clsOut = "cacheFirst" THEN "geosnap-static-v1"
                               ELSE "geosnap-dynamic-v1"

ClassificationWitness ==
  /\ clsOut = "networkFirst"
  /\ clsReq = Req("GET", ProtoHttps, HostNominatim, "/reverse")

\* C8: a request that is not GET or not http(s) is not answered: no strategy
\* runs for it, nothing is read from or written to a bucket, nothing is fetched
SkippedRequestsUntouched ==
  [][ \A h \in Handlers :
        ( /\ handlers'[h].pc # "idle"
          /\ \/ handlers'[h].req.method # "GET"
             \/ handlers'[h].req.protocol \notin { ProtoHttp, ProtoHttps } )
        => /\ handlers'[h].strategy = "none"
           /\ handlers'[h].pc = "passthrough"
           /\ handlers'[h].settled = "pending"
           /\ handlers'[h].cacheOps = 0
           /\ handlers'[h].fetched = 0
           /\ handlers[h].pc = "idle" =>
                /\ cacheStore' = cacheStore
                /\ pendingPuts' = pendingPuts
                /\ clock' = clock ]_vars

SkippedRequestsWitness ==
  /\ \E h \in Handlers : handlers[h].pc = "passthrough" /\ handlers[h].req = ReqPost
  /\ \E h \in Handlers : handlers[h].pc = "passthrough" /\ handlers[h].req = ReqExt

\* C9: after creates only, on an initially empty store, getAllMemories
\* returns every created record exactly once, newest first
ReadAllSortedAndComplete ==
  ( onlyCreates /\ lastOp.op = "getAllMemories" /\ lastOp.ok )
  => LET list == lastOp.list
     IN  /\ Len(list) = Len(created)
         /\ \A i \in DOMAIN created :
              Cardinality({ j \in DOMAIN list : list[j] = created[i] }) = 1
         /\ \A i, j \in DOMAIN list : i < j => list[i].timestamp >= list[j].timestamp

ReadAllSortedWitness ==
  /\ onlyCreates /\ lastOp.op = "getAllMemories" /\ lastOp.ok
  /\ Len(created) = 2
  /\ created[1].timestamp = 1000 /\ created[2].timestamp = 2000
  /\ lastOp.list = << created[2], created[1] >>

\* C10: a successful create stores the record under an identifier the store
\* chose and returns it; the identifier is held by no record of the store and
\* is greater than every identifier a create returned before
CreateIdsFreshAndIncreasing ==
  [][ created' # created =>
        LET new == created'[Len(created')]
        IN  /\ new.id >= 1
            /\ new.id \notin DOMAIN objectStore
            /\ \A i \in DOMAIN created : created[i].id < new.id
            /\ lastOp' = Outcome("saveMemory", TRUE, new.id, << >>)
            /\ new.id \in DOMAIN objectStore' /\ objectStore'[new.id] = new ]_vars

\* a create after the record of an earlier create was deleted or cleared
CreateIdsWitness ==
  /\ lastOp.op = "saveMemory" /\ lastOp.ok
  /\ Len(created) >= 2
  /\ created[1].id \notin DOMAIN objectStore
  /\ DOMAIN objectStore = { lastOp.id }

\* an operation op settled in this step (resolved or rejected)
Settles(op) == lastRun' # lastRun /\ lastRun'.call.op = op

\* the operation that settled in this step ran its request and the request
\* itself succeeded: the open did not fail and request.onerror did not fire
RequestDone == lastRun'.error \notin { "OpenError", "RequestError" }

\* C11: updateMemory for an identifier that no record has is rejected and
\* stores nothing
UpdateOfUnknownIdFails ==
  [][ Settles("updateMemory") /\ lastRun'.call.id \notin DOMAIN objectStore
        => ~lastOp'.ok /\ objectStore' = objectStore ]_vars

\* C12: deleteMemory never fails because no record has the identifier (it
\* rejects only when the request itself errors) and then leaves the store as
\* it was, so a second delete of an identifier changes nothing; for an
\* identifier a record has it removes that record and no other
DeleteRemovesExactlyOne ==
  [][ Settles("deleteMemory") =>
        LET id == lastRun'.call.id
        IN  /\ RequestDone => lastOp'.ok
            /\ id \notin DOMAIN objectStore \/ ~RequestDone => objectStore' = objectStore
            /\ id \in DOMAIN objectStore /\ RequestDone =>
                 /\ DOMAIN objectStore' = DOMAIN objectStore \ { id }
                 /\ \A k \in DOMAIN objectStore' : objectStore'[k] = objectStore[k]
            /\ keyGen' = keyGen ]_vars

\* a record was created under id 3 and deleted again: the earlier record is
\* still there, unchanged
DeleteRemovesExactlyOneWitness ==
  /\ lastRun.call.op = "deleteMemory"
  /\ lastRun.call.id = 3
  /\ lastOp.ok
  /\ keyGen = 4
  /\ objectStore = EarlierStore

\* C13: getMemory resolves with the record stored under the identifier when
\* there is one and with undefined when there is none; it rejects only when
\* the request itself errors, never because the record is absent
GetMemoryFindsOrSignalsAbsence ==
  [][ Settles("getMemory") =>
        LET id == lastRun'.call.id
        IN  /\ RequestDone => lastOp'.ok
            /\ RequestDone /\ id \in DOMAIN objectStore =>
                 lastRun'.value = objectStore[id] /\ lastRun'.value.id = id
            /\ RequestDone /\ id \notin DOMAIN objectStore => lastRun'.value = Undefined
            /\ \A k \in DOMAIN objectStore : objectStore[k] # Undefined ]_vars

\* getMemory resolved with undefined for an identifier no record has, in a
\* store that holds another record
GetMemoryFindsOrSignalsAbsenceWitness ==
  /\ lastRun.call.op = "getMemory"
  /\ lastOp.ok
  /\ lastRun.call.id \notin DOMAIN objectStore
  /\ lastRun.value = Undefined
  /\ objectStore # << >>

\* C14: updateMemory for an identifier a record has replaces the whole
\* record: the store then holds exactly the memory handed in under that
\* identifier (a property the memory lacks is gone from the record), and
\* every other record is as it was
UpdateReplacesWholeRecord ==
  [][ Settles("updateMemory") /\ RequestDone /\ lastRun'.call.id \in DOMAIN objectStore =>
        LET id == lastRun'.call.id
            rec == lastRun'.call.rec
        IN  /\ lastOp'.ok /\ lastOp'.id = id
            /\ DOMAIN objectStore' = DOMAIN objectStore
            /\ objectStore'[id] = rec
            /\ rec.photo = "undefined" => objectStore'[id].photo = "undefined"
            /\ rec.notes = "undefined" => objectStore'[id].notes = "undefined"
            /\ \A k \in DOMAIN objectStore \ { id } : objectStore'[k] = objectStore[k] ]_vars

\* the record of the earlier session, which had a photo and notes, was
\* replaced by a memory without them, next to a record created in between
UpdateReplacesWholeRecordWitness ==
  /\ lastRun.call.op = "updateMemory"
  /\ lastOp.ok
  /\ lastRun.call.rec = PartialMemory(2)
  /\ DOMAIN objectStore = { 2, 3 }
  /\ objectStore[2] = PartialMemory(2)
  /\ created # << >> /\ objectStore[3] = created[1]

\* C15: when clearAll has resolved the store holds no record, and
\* getAllMemories on a store without records resolves with the empty list (it
\* rejects only when the request itself errors)
ClearedStoreReadsEmpty ==
  [][ /\ Settles("clearAll") =>
           /\ RequestDone => lastOp'.ok
           /\ lastOp'.ok => DOMAIN objectStore' = {}
      /\ Settles("getAllMemories") /\ DOMAIN objectStore = {} =>
           /\ RequestDone => lastOp'.ok
           /\ lastOp'.list = << >> ]_vars

\* the store of the earlier session was emptied and getAllMemories then
\* resolved with the empty list
ClearedStoreReadsEmptyWitness ==
  /\ lastRun.call.op = "getAllMemories"
  /\ lastRun.call.n = 3
  /\ lastOp.ok
  /\ lastOp.list = << >>
  /\ keyGen = 3
  /\ DOMAIN objectStore = {}

\* C16: getAllMemories, getMemory and exportData leave the records and the
\* key generator as they were, and the totalMemories of an export is the
\* number of records the store holds when it is made, as is the number of
\* memories it lists
ReadsLeaveStoreUnchanged ==
  [][ /\ Settles("getAllMemories") \/ Settles("getMemory") \/ Settles("exportData") =>
           objectStore' = objectStore /\ keyGen' = keyGen
      /\ Settles("exportData") /\ lastOp'.ok =>
           /\ lastRun'.json.totalMemories = Cardinality(DOMAIN objectStore)
           /\ Len(lastRun'.json.memories) = Cardinality(DOMAIN objectStore) ]_vars

\* an export of a store with two records counted two
ReadsLeaveStoreUnchangedWitness ==
  /\ lastRun.call.op = "exportData"
  /\ lastOp.ok
  /\ Cardinality(DOMAIN objectStore) = 2
  /\ lastRun.json.totalMemories = 2

\* C17: when the memories an export lists were all saved again into the
\* cleared store, getAllMemories lists exactly the photo, location,
\* timestamp and notes combinations the store held when the export was
\* made, and no save of a listed memory fails on its key
RestoreReproducesRecords ==
  /\ rtPhase = "done" =>
       /\ ListedTuples(lastOp.list) = rtOriginal
       /\ StoredTuples(objectStore) = rtOriginal
  /\ rtPhase # "idle" => lastRun.error # "ConstraintError"

\* a store of two records, one without photo and notes, was exported,
\* cleared and restored
RestoreReproducesRecordsWitness ==
  /\ rtPhase = "done"
  /\ Cardinality(rtOriginal) = 2
  /\ Tuple(PartialMemory(1)) \in rtOriginal
  /\ Len(lastOp.list) = 2

\* C18: once the handle is set it is never replaced and the database is not
\* opened again, so every later operation runs on the handle of the first
\* successful open (stated for the operations that check the handle: the
\* steps in which an explicit init() call settles, or follow one, are left
\* aside)
HandleKeptOnceOpened ==
  [][ ~HandleAbsent(db) /\ lastRun.call.op # "init" /\ lastRun'.call.op # "init" =>
        db' = db /\ opens' = opens ]_vars

\* C19: an operation issued while the handle is absent runs no request; it
\* waits for its own init(), and its transaction runs only when that open
\* has succeeded, on the handle the open stored; no transaction ever runs on
\* an absent handle
InitBeforeTransaction ==
  [][ /\ ops' = ops + 1 /\ db = 0 =>
           /\ lastRun' = lastRun /\ lastOp' = lastOp /\ objectStore' = objectStore
           /\ Cardinality(waiting') = Cardinality(waiting) + 1
      /\ lastRun' # lastRun /\ lastRun'.error # "OpenError" =>
           lastRun'.handle # 0 /\ lastRun'.handle = db'
      /\ lastRun' # lastRun /\ lastRun'.error # "OpenError" /\ db = 0 =>
           opens' = opens + 1 ]_vars

\* saveMemory was the first operation of the page, without any init() call,
\* and stored its record on the handle its own open produced
InitBeforeTransactionWitness ==
  /\ ops = 1
  /\ lastRun.call.op = "saveMemory"
  /\ lastOp.ok
  /\ lastRun.handle = 1
  /\ db = 1
  /\ DOMAIN objectStore # {}

\* C20: when the open request fails, init() and the operation awaiting it
\* reject: the operation is not reported as resolved, the handle, the open
\* count and the records stay as they were, and an operation issued while
\* the handle is absent starts an open of its own
OpenDeniedRejects ==
  [][ /\ lastRun' # lastRun /\ lastRun'.error = "OpenError" =>
           /\ ~lastOp'.ok /\ lastOp'.op = lastRun'.call.op
           /\ db' = db /\ opens' = opens
           /\ objectStore' = objectStore /\ keyGen' = keyGen
      /\ ops' = ops + 1 /\ db = 0 => \E call \in waiting' \ waiting : call.n = ops' ]_vars

\* getAllMemories was rejected because its open failed, the handle is still
\* absent, and an operation issued after it is waiting for its own open
OpenDeniedRejectsWitness ==
  /\ lastRun.call.op = "getAllMemories"
  /\ lastRun.error = "OpenError"
  /\ ~lastOp.ok
  /\ db = 0
  /\ \E call \in waiting : call.n > lastRun.call.n

\* C21: the upgrade creates the object store and its two indexes only for a
\* database that has no object store, and leaves an object store that
\* exists, its records and its indexes as they are; an open that succeeds
\* leaves the database with the object store and both indexes, and an init()
\* or a read that opened a database with records leaves every record in place
SchemaCreatedOnce ==
  [][ /\ hasStore =>
           UpgradeNeeded(hasStore, objectStore, indexes) =
             [ hasStore |-> TRUE, objectStore |-> objectStore, indexes |-> indexes ]
      /\ ~hasStore =>
           UpgradeNeeded(hasStore, objectStore, indexes) =
             [ hasStore |-> TRUE, objectStore |-> << >>,
               indexes |-> { "timestamp", "location" } ]
      /\ opens' = opens + 1 =>
           /\ hasStore' /\ indexes' = { "timestamp", "location" }
           /\ hasStore => indexes' = indexes
           /\ lastRun'.call.op \in { "init", "getAllMemories" } =>
                objectStore' = objectStore /\ keyGen' = keyGen ]_vars

\* init() opened the database of the earlier session a second time: its
\* record is in place
SchemaCreatedOnceWitness ==
  /\ opens = 2
  /\ lastRun.call.op = "init"
  /\ hasStore
  /\ indexes = { "timestamp", "location" }
  /\ objectStore = EarlierStore

\* C22: every entry of the static and of the dynamic bucket, and every
\* response a pending cache.put is about to write, has a 2xx status; the
\* synthesized 503 is in no bucket
OnlyOkResponsesStored ==
  /\ \A n \in { STATIC_CACHE, DYNAMIC_CACHE } \cap DOMAIN cacheStore :
       \A k \in DOMAIN cacheStore[n] :
         IsOk(cacheStore[n][k]) /\ cacheStore[n][k] # OfflineResponse
  /\ \A p \in pendingPuts : IsOk(p.resp) /\ p.resp # OfflineResponse

\* both strategies returned a response that was not written: a cache-first
\* request got a 404 of the origin, a network-first request the 503, no put
\* is pending and neither bucket holds an entry for them
OnlyOkResponsesStoredWitness ==
  /\ pendingPuts = {}
  /\ \E h \in Handlers :
       /\ Done(h) /\ handlers[h].strategy = "cacheFirst"
       /\ handlers[h].resp.status = 404
       /\ ~Holds(cacheStore, STATIC_CACHE, Key(handlers[h].req))
  /\ \E h \in Handlers :
       /\ Done(h) /\ handlers[h].strategy = "networkFirst"
       /\ handlers[h].resp = OfflineResponse
       /\ ~Holds(cacheStore, DYNAMIC_CACHE, Key(handlers[h].req))

\* a cache-first request whose identity the static bucket held when the
\* request arrived
LaterHit(h) ==
  /\ handlers[h].pc = "done"
  /\ handlers[h].strategy = "cacheFirst"
  /\ handlers[h].heldAtStart

\* the step in which cacheFirst returns the 2xx response its fetch resolved with
MissFetched(h) ==
  /\ handlers[h].pc = "cf_fetch"
  /\ handlers'[h].pc = "done"
  /\ IsOk(handlers'[h].resp)

\* what C23 says of the miss: the network response is returned and a put of
\* it under the request's identity is issued on the static bucket, and a put
\* that completes stores its response
MissIsWritten ==
  /\ \A h \in Handlers :
       MissFetched(h) =>
         /\ handlers'[h].settled = "resolved"
         /\ handlers'[h].resp.body = "origin"
         /\ [ bucket |-> STATIC_CACHE, key |-> Key(handlers[h].req),
              resp |-> handlers'[h].resp ] \in pendingPuts'
  /\ \A p \in pendingPuts \ pendingPuts' :
       cacheStore' # cacheStore =>
         Holds(cacheStore', p.bucket, p.key) /\ cacheStore'[p.bucket][p.key] = p.resp

\* C23 as stated: a cache-first miss with a 2xx fetch returns the network
\* response and issues the write, and every later cache-first request for an
\* identity the static bucket holds is served a stored 2xx entry without a
\* network fetch
MissThenAlwaysHit ==
  [][ /\ MissIsWritten
      /\ \A h \in Handlers :
           LaterHit(h)' => handlers'[h].fetched = 0 /\ IsOk(handlers'[h].resp) ]_vars

\* C23 amended: as above, the later request being served the stored entry
\* when the bucket could be opened and read, and the 503 otherwise; in
\* neither case is the network used
MissThenHitUnlessCacheFails ==
  [][ /\ MissIsWritten
      /\ \A h \in Handlers :
           LaterHit(h)' =>
             /\ handlers'[h].fetched = 0
             /\ ~handlers'[h].cacheErr => IsOk(handlers'[h].resp)
             /\ handlers'[h].cacheErr => handlers'[h].resp = OfflineResponse ]_vars

\* a miss fetched a 2xx response, its write completed, and a second request
\* for the same identity was served that response without a fetch
MissThenHitWitness ==
  \E h1, h2 \in Handlers :
    /\ h1 # h2
    /\ handlers[h1].pc = "done" /\ handlers[h2].pc = "done"
    /\ handlers[h1].strategy = "cacheFirst" /\ handlers[h2].strategy = "cacheFirst"
    /\ handlers[h1].req = handlers[h2].req
    /\ ~handlers[h1].heldAtStart /\ handlers[h1].fetched = 1 /\ IsOk(handlers[h1].resp)
    /\ handlers[h2].heldAtStart /\ handlers[h2].fetched = 0
    /\ handlers[h2].resp = handlers[h1].resp

WriteNeverChangesResponse ==
  [][ /\ \A h \in Handlers : Done(h) => handlers'[h] = handlers[h]
      /\ pendingPuts' # pendingPuts /\ pendingPuts' \subseteq pendingPuts =>
           /\ handlers' = handlers
           /\ \E p \in pendingPuts \ pendingPuts' :
                \/ cacheStore' = cacheStore
                \/ cacheStore' = [ cacheStore EXCEPT ![p.bucket] = BucketPut(@, p.key, p.resp) ]
    ]_vars

\* cacheFirst returned the origin's 2xx response while its write to the
\* static bucket was still pending
WriteNeverChangesResponseWitness ==
  \E h \in Handlers :
    /\ Done(h) /\ handlers[h].strategy = "cacheFirst"
    /\ handlers[h].settled = "resolved" /\ handlers[h].resp.body = "origin"
    /\ IsOk(handlers[h].resp)
    /\ [ bucket |-> STATIC_CACHE, key |-> Key(handlers[h].req), resp |-> handlers[h].resp ]
         \in pendingPuts
    /\ ~Holds(cacheStore, STATIC_CACHE, Key(handlers[h].req))

\* C26: a failure of cache.put inside a strategy is caught by the strategy:
\* the strategy's promise never rejects and no rejected put is left without
\* a handler
PutFailureIsCaught ==
  /\ \A h \in Handlers : Done(h) /\ handlers[h].strategy # "none" =>
       handlers[h].settled = "resolved"
  /\ ~putRejected

\* C27: clients are claimed only after every deletion of a stale bucket has
\* completed: whenever the worker has claimed its clients no deletion is
\* outstanding, none has failed and no bucket but the current static and
\* dynamic buckets exists; an activation in which a deletion failed ends
\* without the claim
ClaimAfterDeletions ==
  /\ claimed =>
       /\ toDelete = {}
       /\ ~deleteFailed
       /\ Stale(DOMAIN cacheStore) = {}
  /\ phase = "activated" /\ deleteFailed => ~claimed

\* the worker found stale buckets, deleted all of them and then claimed
ClaimAfterDeletionsWitness ==
  /\ claimed
  /\ phase = "activated"
  /\ Stale(cacheNames) = { CACHE_NAME, OldStatic }
  /\ Stale(DOMAIN cacheStore) = {}

\* a call of getCurrentPosition that has not settled
InFlight(c) == requests[c].pc \in { "waiting", "settling" }

\* the call made in this step
Called == issued' = issued + 1

\* C28: at most one location request is in flight: a call made while
\* another call has not settled rejects with 'Location request already in
\* progress', issues no platform request and leaves the flag and the running
\* call as they were; no two platform requests are ever in flight together
OneRequestInFlight ==
  [][ /\ Called /\ (\E d \in Calls : InFlight(d)) =>
           /\ requests'[issued'].pc = "done"
           /\ requests'[issued'].error = InProgress
           /\ ~requests'[issued'].platform
           /\ requesting /\ requesting'
           /\ \A d \in Calls : InFlight(d) => requests'[d] = requests[d]
      /\ Cardinality({ c \in Calls : requests'[c].platform /\ requests'[c].pc # "done" }) <= 1
    ]_vars

\* a second call and a third were rejected while the first is still running
\* with the flag set
OneRequestInFlightWitness ==
  /\ InFlight(1) /\ requests[1].geocoding
  /\ requesting
  /\ requests[2].pc = "done" /\ requests[2].error = InProgress /\ ~requests[2].platform
  /\ requests[3].pc = "done" /\ requests[3].error = InProgress

\* C29: the flag is reset when a request is done: the step in which a call
\* settles by success, by a platform error or because geolocation is
\* unsupported leaves requesting false; in every state with no call in
\* flight requesting is false, and a call made in such a state is accepted
\* (it is not rejected with 'Location request already in progress')
FlagResetWhenDone ==
  [][ /\ \A c \in Calls :
           /\ requests[c].pc # "done" /\ requests'[c].pc = "done"
           /\ requests'[c].error # InProgress
           => ~requesting'
      /\ (\A c \in Calls : ~InFlight(c)') => ~requesting'
      /\ Called /\ (\A c \in Calls : ~InFlight(c)) =>
           requests'[issued'].error # InProgress
    ]_vars

\* one call has succeeded, one has failed with a platform error, and a third
\* call made afterwards was accepted
FlagResetWhenDoneWitness ==
  /\ requests[1].pc = "done" /\ requests[1].error = "" /\ requests[1].value # NoLocation
  /\ requests[2].pc = "done" /\ requests[2].error = ErrorMessage(3)
  /\ requests[3].pc = "waiting" /\ requests[3].platform
  /\ requesting

\* C30: first settlement wins: a settled call keeps its result; the
\* callback the platform fired first decides the outcome of the call; and
\* the callback fired second changes neither the call nor the flag
FirstSettlementWins ==
  [][ \A c \in Calls :
        /\ requests[c].pc = "done" =>
             /\ requests'[c].pc = "done"
             /\ requests'[c].value = requests[c].value
             /\ requests'[c].error = requests[c].error
        /\ requests'[c].pc = "done" /\ requests'[c].first = "success" =>
             /\ requests'[c].error = ""
             /\ \E name \in GeocodedNames :
                  requests'[c].value = Location(requests'[c].position, name)
        /\ requests'[c].pc = "done" /\ requests'[c].first = "error" =>
             /\ requests'[c].error \in { ErrorMessage(code) : code \in ErrorCodes }
             /\ requests'[c].value = NoLocation
        /\ requests[c].fired # {} /\ requests'[c].fired # requests[c].fired =>
             /\ requests'[c] = [ requests[c] EXCEPT !.fired = { "success", "error" } ]
             /\ requesting' = requesting
    ]_vars

\* the error callback fired while the success callback was awaiting reverse
\* geocoding, and the call then resolved with the location
FirstSettlementWinsWitness ==
  \E c \in Calls :
    /\ requests[c].pc = "done"
    /\ requests[c].first = "success"
    /\ requests[c].fired = { "success", "error" }
    /\ requests[c].error = ""
    /\ requests[c].value = Location(requests[c].position, "")
    /\ requests[c].position.latitude < 0

\* reverseGeocode did not get a usable address for the response
NoUsableAddress(response) ==
  \/ response.status = 0
  \/ response.status \notin 200 .. 299
  \/ ~response.json
  \/ ~response.address.present
  \/ /\ response.address.city = "" /\ response.address.state = ""
     /\ response.address.country = ""

\* C31: reverseGeocode never rejects, and resolves with null on a network
\* failure, a non-2xx response or a response with no usable address; the call
\* of getCurrentPosition then still resolves, its locationName being the text
\* of the coordinates (four decimals) and its latitude and longitude the
\* platform's coordinates
GeocodeFailureKeepsCoordinates ==
  \A c \in Calls :
    requests[c].promise = "fulfilled" =>
      /\ ReverseGeocode(requests[c].response).settled = "resolved"
      /\ requests[c].error = ""
      /\ requests[c].value.latitude = requests[c].position.latitude
      /\ requests[c].value.longitude = requests[c].position.longitude
      /\ NoUsableAddress(requests[c].response) =>
           /\ ReverseGeocode(requests[c].response).name = ""
           /\ requests[c].value.locationName =
                [ text |-> "",
                  fixed |-> << ToFixed(requests[c].position.latitude),
                               ToFixed(requests[c].position.longitude) >> ]

\* the Nominatim request got the 503 of the service worker and the call
\* resolved with the coordinates -33.9253, 18.4234 as its name
GeocodeFailureKeepsCoordinatesWitness ==
  \E c \in Calls :
    /\ requests[c].pc = "done"
    /\ requests[c].promise = "fulfilled"
    /\ requests[c].response.status = 503
    /\ requests[c].value.latitude = -3392527
    /\ requests[c].value.locationName = [ text |-> "", fixed |-> << -339253, 184234 >> ]

\* C32: a location failure never prevents a captured photo from being
\* saved.  When the location call of a capture whose Camera.capture
\* succeeded has rejected (denied, unavailable, timed out, unsupported or
\* another request in progress), the step in which capturePhoto resumes
\* issues exactly one saveMemory, for that photo and with location null;
\* unless the store itself rejects it, the step adds exactly one record, the
\* one this capture reports, and the later steps of the capture add none.
LocationFailureStillSaves ==
  [][ \A i \in 1 .. MaxCaptures :
        /\ ( /\ captures[i].pc = "locating"
             /\ captures'[i].pc # "locating"
             /\ requests[captures[i].call].error # "" )
           => /\ ops' = ops + 1
              /\ lastRun'.call.op = "saveMemory"
              /\ lastRun'.call.rec.photo = captures[i].photo
              /\ lastRun'.call.rec.location = "null"
              /\ lastRun'.error = ""
                   => /\ captures'[i].pc = "saved"
                      /\ DOMAIN objectStore' = DOMAIN objectStore \cup { captures'[i].id }
                      /\ captures'[i].id \notin DOMAIN objectStore
                      /\ objectStore'[captures'[i].id].location = "null"
                      /\ objectStore'[captures'[i].id].photo = captures[i].photo
        /\ captures[i].pc \in { "saved", "done", "failed" }
           => /\ captures'[i].id = captures[i].id
              /\ captures[i].pc = "saved" /\ captures'[i].pc # "saved"
                   => objectStore' = objectStore
    ]_vars

\* both captures were taken while the first location request was pending:
\* the first one's request timed out, the second one's was turned away as
\* already in progress, and each left its own record with location null
LocationFailureStillSavesWitness ==
  /\ captures[1].pc \in { "saved", "done" }
  /\ captures[2].pc \in { "saved", "done" }
  /\ requests[captures[1].call].error = ErrorMessage(3)
  /\ requests[captures[2].call].error = InProgress
  /\ captures[1].id # captures[2].id
  /\ objectStore[captures[1].id].location = "null"
  /\ objectStore[captures[2].id].location = "null"
  /\ Cardinality(DOMAIN objectStore) = 2

\* C39: for any interleaving of view switches with the asynchronous camera
\* start, whenever the current view is not the camera view and no
\* Camera.start call is still pending, no camera stream is running
\* (Camera.stream is null and isActive is false), and in every state with no
\* start pending isActive is true exactly when Camera.stream is non-null.
NoStreamOutsideCameraView ==
  /\ ( currentView # "camera-view" /\ camera.starting = 0 )
       => ( camera.stream = 0 /\ ~camera.isActive )
  /\ camera.starting = 0 => ( camera.isActive <=> camera.stream # 0 )

\* C33: with a non-empty search query the feed shows exactly the memories
\* whose location name or notes contain it; when no memory matches, the feed
\* shows the "No results found" state and no memory card.
FeedShowsExactlyTheMatches ==
  searchQuery # << >>
    => /\ { feed.cards[i] : i \in DOMAIN feed.cards }
            = { appMemories[i] : i \in { j \in DOMAIN appMemories :
                                           Matches(appMemories[j], searchQuery) } }
       /\ ( \A i \in DOMAIN appMemories : ~Matches(appMemories[i], searchQuery) )
            => ( feed.state = "No results found" /\ feed.cards = << >> )

\* C34: closing the upload modal resets the upload state: after
\* UI.closeModal has run while the upload modal was the current modal,
\* pendingUpload is null (so that a later saveUpload without a new file
\* selection stores nothing).
CloseResetsUpload ==
  [][ ( currentModal = "upload" /\ currentModal' = "null" ) => ~pendingUpload'.set ]_vars

\* C35: at most one open of the record container is in flight at any time
\* (every operation suspended in init() has its own open request pending)
\* and at most one open ever succeeds, for any interleaving of the public
\* operations.
SingleOpenInFlight == Cardinality(waiting) <= 1 /\ opens <= 1

\* C36: once deleteMemory(id) has resolved, no record with identifier id is
\* readable again after later update, delete, read and export operations
\* (stated for the operation that follows the resolved delete: it leaves the
\* store without a record under id).
DeletedStaysDeleted ==
  [][ ( /\ lastRun.call.op = "deleteMemory" /\ lastRun.error = ""
        /\ lastRun'.call.op \in { "updateMemory", "deleteMemory", "getAllMemories",
                                  "getMemory", "exportData" } )
        => lastRun.call.id \notin DOMAIN objectStore' ]_vars

\* C37: when the fetch of a network-first request resolves with a non-2xx
\* response of the origin, that response is returned to the caller as it
\* is, the step writes nothing and queues no write (the dynamic bucket and
\* an earlier good entry in it are left as they are), and the stored entry
\* is neither looked up nor served in its place.
ErrorResponsePassedThrough ==
  [][ \A h \in Handlers :
        ( /\ handlers[h].pc = "nf_fetch"
          /\ handlers'[h].pc = "done"
          /\ handlers'[h].resp.status \notin 200 .. 299 )
        => /\ handlers'[h].settled = "resolved"
           /\ handlers'[h].resp = OriginResp(handlers'[h].resp.status, clock')
           /\ clock' = clock + 1
           /\ cacheStore' = cacheStore
           /\ pendingPuts' = pendingPuts
           /\ handlers'[h].looked = "none"
           /\ Holds(cacheStore, DYNAMIC_CACHE, Key(handlers[h].req))
                => handlers'[h].resp # Match(cacheStore', DYNAMIC_CACHE, Key(handlers[h].req))
    ]_vars

\* a network-first request was answered with the origin's 404 while the
\* dynamic bucket holds an earlier 200 entry for the same identity
ErrorResponsePassedThroughWitness ==
  \E h \in Handlers :
    /\ handlers[h].strategy = "networkFirst"
    /\ handlers[h].pc = "done"
    /\ handlers[h].resp.status = 404
    /\ handlers[h].resp.body = "origin"
    /\ Holds(cacheStore, DYNAMIC_CACHE, Key(handlers[h].req))
    /\ Match(cacheStore, DYNAMIC_CACHE, Key(handlers[h].req)).status = 200
    /\ pendingPuts = {}

\* C38: in the Active phase an existing static-bucket entry is never
\* replaced or removed: whatever step is taken, every identity the static
\* bucket holds an entry for keeps that same entry.
StaticEntryNeverReplaced ==
  [][ ( phase = "activated" /\ STATIC_CACHE \in DOMAIN cacheStore )
        => \A key \in DOMAIN cacheStore[STATIC_CACHE] :
             /\ Holds(cacheStore', STATIC_CACHE, key)
             /\ Match(cacheStore', STATIC_CACHE, key) = Match(cacheStore, STATIC_CACHE, key)
    ]_vars

====
